---- MODULE Spec2Model ----
(***************************************************************************)
(* BinkOS: the swap and staking tools' quote / approve / execute pipeline, *)
(* the concurrent best-quote fan-out, the providers' time-bounded quote    *)
(* stores, the staking-balance and cancel-limit-orders tools, the Solana   *)
(* transfer quote, and the Agent's tool list and executor.                 *)
(*                                                                         *)
(* The specifications share the module's variables; each leaves the        *)
(* variables of the other parts at their idle values:                      *)
(*   Spec        one call of SwapTool / StakingTool createTool().func      *)
(*   SpecLive    Spec with every started call running on                   *)
(*   SpecSetup   the swap tool's construction, then one call               *)
(*   SpecQuote   findBestQuote: the fan-out over the providers, the fold   *)
(*   SpecRuns    overlapping findBestQuote runs                            *)
(*   SpecCache   FourMemeProvider / SolanaProvider quote stores and clock  *)
(*   SpecBalance one call of GetStakingBalanceTool's func                  *)
(*   SpecCancel  one call of CancelLimitOrdersTool's func                  *)
(*   SpecAdjust  SolanaProvider.getQuote / adjustAmount for a transfer     *)
(*   SpecAgent   Agent: registerTool, registerPlugin, unregisterPlugin,    *)
(*               execute and the pending executor initializations          *)
(***************************************************************************)
EXTENDS Integers, Sequences, FiniteSets, TLC

VARIABLES
    \* ---- one tool call (createTool().func and what it awaits)
    tool,        \* "swap" | "staking"
    plugin,      \* the tool object: agent networks, supportedNetworks, registry
    pc,          \* position inside func / getQuote / attemptTokenAddressFix
    depth,       \* number of nested func calls started by attemptTokenAddressFix
    caller,      \* the params object the caller passed: as submitted, and as it is now
    args,        \* the args object of the running func call
    local,       \* the locals of the running func call
    caught,      \* the value caught by func's catch block
    log,         \* wallet / provider transactions and throws, in program order
    result,      \* the record func resolves with
    \* ---- findBestQuote
    qtool,       \* "swap" | "staking" : whose findBestQuote runs
    params,      \* params of the findBestQuote call
    responses,   \* provider index -> what its getQuote will answer
    fan,         \* run -> state of that run's Promise.all
    logged,      \* run -> providers whose failure was passed to logger.warn
    outcome,     \* run -> what findBestQuote returned or threw
    \* ---- provider quote stores
    now,         \* Date.now()
    ticks,       \* clock advances so far
    fmQuotes,    \* FourMemeProvider.quotes
    solQuotes,   \* SolanaProvider.quotes
    issued,      \* quotes returned by getQuote so far, with issue time
    prov,        \* the provider object the calls go to
    lastBuild,   \* the last buildSwapTransaction / buildTransferTransaction call
    \* ---- the other tools and the agent
    sb,          \* one call of GetStakingBalanceTool's func
    co,          \* one call of CancelLimitOrdersTool's func, and the order book
    sq,          \* one call of SolanaProvider.getQuote for a transfer
    ag           \* the Agent: tools, plugins, executor, pending initializations

pipeVars  == <<tool, plugin, pc, depth, args, caller, local, caught, log, result>>
quoteVars == <<qtool, params, responses, fan, logged, outcome>>
cacheVars == <<now, ticks, fmQuotes, solQuotes, issued, prov, lastBuild>>
auxVars   == <<sb, co, sq, ag>>
vars      == <<pipeVars, quoteVars, cacheVars, auxVars>>

(***************************************************************************)
(* Bounds of the model.                                                    *)
(***************************************************************************)
MaxAllowance == 2      \* checkAllowance answers 0..MaxAllowance base units
MaxTicks     == 4      \* clock advances per behaviour
MaxQuotes    == 2      \* getQuote calls per provider and behaviour

(***************************************************************************)
(* Small helpers.                                                          *)
(***************************************************************************)
RECURSIVE Pow10(_)
Pow10(n) == IF n = 0 THEN 1 ELSE 10 * Pow10(n - 1)

RECURSIVE DigitsValue(_)
\* the natural number written by a sequence of decimal digits
DigitsValue(ds) ==
    IF ds = <<>> THEN 0
    ELSE 10 * DigitsValue(SubSeq(ds, 1, Len(ds) - 1)) + ds[Len(ds)]

Indices(s) == 1 .. Len(s)

(***************************************************************************)
(* Values shared by the tools.                                             *)
(***************************************************************************)
NATIVE == "0xeeee"     \* EVM_NATIVE_TOKEN_ADDRESS
WBNB   == "0xbb4c"     \* WrapToken.WBNB

\* defaultTokens[network]: the static address -> symbol table
defaultTokens(network) ==
    IF network = "bnb"
    THEN {[address |-> NATIVE, symbol |-> "BNB"],
          [address |-> WBNB, symbol |-> "WBNB"],
          [address |-> "0x5fdf", symbol |-> "BINK"],
          [address |-> "0x55d3", symbol |-> "USDT"]}
    ELSE IF network = "solana"
    THEN {[address |-> "So11", symbol |-> "SOL"]}
    ELSE IF network = "hyperliquid"
    THEN {[address |-> "0x0d01", symbol |-> "HYPE"]}
    ELSE {}

\* String.prototype.toLowerCase on the token references of the model
toLowerCase(s) ==
    CASE s = "BINK" -> "bink"
      [] s = "BNB"  -> "bnb"
      [] s = "WBNB" -> "wbnb"
      [] s = "USDT" -> "usdt"
      [] s = "Usdt" -> "usdt"
      [] s = "SOL"  -> "sol"
      [] s = "HYPE" -> "hype"
      [] s = "JUNK" -> "junk"
      [] OTHER      -> s

\* token references a caller may pass
FromTokenRefs == {NATIVE, "0x5fdf", "bink", "JUNK"}
ToTokenRefs   == {"0x55d3", "Usdt", "hype", "JUNK"}
Addresses     == {NATIVE, WBNB, "0x5fdf", "0x55d3"}

\* validateTokenAddress(ref, network): the address validator of utils/addressValidation
validateTokenAddress(ref, network) ==
    [isValid |-> ref \in Addresses, address |-> ref]

\* a decimal string: wf = it is a well-formed number, int "." frac
AmountStr(wf, int, frac) == [wf |-> wf, int |-> int, frac |-> frac]
IsZeroStr(a) == a.wf /\ a.int = 0 /\ a.frac = <<>>

\* parseTokenAmount(amount, decimals): base units of a decimal string
parseTokenAmount(amount, decimals) ==
    IF ~amount.wf THEN 0                        \* parseUnits throws: caught, zero
    ELSE IF IsZeroStr(amount) THEN 0
    ELSE LET frac == IF Len(amount.frac) > decimals
                     THEN SubSeq(amount.frac, 1, decimals)   \* truncate the excess
                     ELSE amount.frac
         IN  amount.int * Pow10(decimals)
               + DigitsValue(frac) * Pow10(decimals - Len(frac))

\* errors: what a catch block can tell about a thrown value
\*   isObj     : error instanceof Error, or an object
\*   step      : error.step ("" when the value has none)
\*   msg       : which of the messages func looks for error.message includes
\*   tokenType : error.details.tokenType
Err(isObj, step, msg, tokenType) ==
    [isObj |-> isObj, step |-> step, msg |-> msg, tokenType |-> tokenType]
NoErr       == Err(FALSE, "", "", "")
PlainError  == Err(TRUE, "", "other", "")        \* new Error(...) of a collaborator
StringThrow == Err(FALSE, "", "other", "")       \* throw `...`
\* what a rejected call of a collaborator (wallet, provider) may carry: an Error
\* with an unrelated message, an Error whose message includes 'Invalid toToken
\* address', or an object with step TOKEN_NOT_FOUND and details.tokenType
CollaboratorErrors ==
    {PlainError, Err(TRUE, "", "invalid_to", ""),
     Err(TRUE, "token_not_found", "other", "fromToken")}
\* BaseTool.createError(step, message, details)
createError(step, msg, tokenType) == Err(TRUE, step, msg, tokenType)

\* a rejection value of a wallet or provider call that JSON.stringify cannot
\* serialise: an object holding a BigInt (a transaction's value) or a cycle
BigIntError == [isObj |-> TRUE, step |-> "", msg |-> "other", tokenType |-> "",
                bigint |-> TRUE]
\* what the collaborators of the staking tool may reject with
StakeCollaboratorErrors == {PlainError, BigIntError}
\* JSON.stringify throws a TypeError on a BigInt or a circular structure
CanStringify(error) == "bigint" \notin DOMAIN error

NoQuote == [provider |-> "none", fromAmount |-> AmountStr(FALSE, 0, <<>>), decimals |-> 0]
\* what provider.checkBalance resolves to: { isValid, message? }
BalanceCheck(isValid, message) == [isValid |-> isValid, message |-> message]
NoBalanceCheck == BalanceCheck(TRUE, "")
BalanceChecks ==
    {BalanceCheck(TRUE, ""), BalanceCheck(FALSE, ""), BalanceCheck(FALSE, "provider_msg")}

NoLocal ==
    [userAddress |-> "", fromToken |-> "", swapFromToken |-> "", provider |-> "none",
     quote |-> NoQuote, balanceCheck |-> NoBalanceCheck,
     spender |-> "", allowance |-> -1, requiredAmount |-> -1, hash |-> ""]
NoResult == [status |-> "none", provider |-> "none", hash |-> "", step |-> "", message |-> ""]

\* BaseTool.handleError(error, args): the structured error record, as JSON
handleError(error) ==
    [status |-> "error", provider |-> "none", hash |-> "", step |-> error.step,
     message |-> error.msg]

\* quotes a provider may answer in a tool call
PipeQuotes ==
    { [provider |-> p, fromAmount |-> a, decimals |-> d] :
        p \in {"P1", "P2"},
        a \in {AmountStr(TRUE, 1, <<>>), AmountStr(TRUE, 0, <<5>>)},
        d \in {0, 1} }

Networks          == {"bnb", "solana", "hyperliquid", "null"}

\* provider.getSupportedNetworks() of the providers a tool call may name
ProviderNetworks(name) ==
    IF name = "P1" THEN {"bnb", "hyperliquid"}
    ELSE IF name = "P2" THEN {"bnb", "solana"}
    ELSE {}

\* the tool object: Object.keys(agent.getNetworks()), config.supportedNetworks,
\* this.supportedNetworks and the names in this.registry
Plugin(agentNetworks, config, supportedNetworks, providers) ==
    [agentNetworks |-> agentNetworks, config |-> config,
     supportedNetworks |-> supportedNetworks, providers |-> providers]
NoPlugin == Plugin({}, {}, {}, {})
\* new SwapTool(config): supportedNetworks = new Set(config.supportedNetworks || [])
NewPlugin(agentNetworks, config) == Plugin(agentNetworks, config, config, {})
\* both providers registered on an agent of three networks
FullPlugin ==
    Plugin({"bnb", "solana", "hyperliquid"}, {}, {"bnb", "solana", "hyperliquid"},
           {"P1", "P2"})

\* mutant: the agent's networks do not filter the set
getSupportedNetworks_NoAgentFilter == plugin.supportedNetworks

\* getSupportedNetworks(): agentNetworks.filter(n => providerNetworks.includes(n))
getSupportedNetworks == plugin.agentNetworks \cap plugin.supportedNetworks

\* a wallet or provider transaction, or a throw, of the func call at depth d
Event(op, ev, d) == [op |-> op, ev |-> ev, depth |-> d]
Throw(at, err) ==
    /\ pc' = "catch"
    /\ caught' = err
    /\ log' = Append(log, Event("throw", at, depth))

PipeOnly == UNCHANGED <<quoteVars, cacheVars, auxVars>>

(***************************************************************************)
(* SwapTool.createTool().func, with the getQuote it awaits.                *)
(***************************************************************************)

\* func's first statements and getQuote STEP 1 and 2 (no await in between):
\* args.amount is made a string, the token references are validated and
\* args.fromToken / args.toToken overwritten with the validator's address
SwapValidate ==
    /\ tool = "swap" /\ pc = "start"
    /\ local' = [local EXCEPT !.fromToken = args.fromToken]   \* const { fromToken } = args
    /\ LET a0 == [args EXCEPT !.amountKind = "string"]
       IN  IF args.network \notin getSupportedNetworks
           THEN /\ Throw("network_validation",
                         createError("network_validation", "other", ""))
                /\ args' = a0
           ELSE IF args.network # "hyperliquid"
           THEN LET fromTokenValidation == validateTokenAddress(args.fromToken, args.network)
                    toTokenValidation   == validateTokenAddress(args.toToken, args.network)
                IN  /\ args' = [a0 EXCEPT !.fromToken = fromTokenValidation.address,
                                          !.toToken = toTokenValidation.address]
                    /\ IF ~fromTokenValidation.isValid
                       THEN Throw("token_validation",
                                  createError("token_not_found", "invalid_from", "fromToken"))
                       ELSE IF ~toTokenValidation.isValid
                       THEN Throw("token_validation",
                                  createError("token_not_found", "invalid_to", "toToken"))
                       ELSE pc' = "wallet" /\ UNCHANGED <<caught, log>>
           ELSE pc' = "wallet" /\ args' = a0 /\ UNCHANGED <<caught, log>>
    \* the args of the outermost call are the caller's own object
    /\ caller' = IF depth = 0 THEN [caller EXCEPT !.now = args'] ELSE caller
    /\ UNCHANGED <<tool, plugin, depth, result>>
    /\ PipeOnly

\* the limit-order test of getQuote STEP 5 (wrap)
NeedsWrap(a, fromToken) == a.limitPrice # 0 /\ fromToken = NATIVE

\* getQuote STEP 3: await wallet.getAddress(network)
SwapGetAddress ==
    /\ tool = "swap" /\ pc = "wallet"
    /\ \/ /\ local' = [local EXCEPT !.userAddress = "0xuser",
                                    !.swapFromToken = local.fromToken]  \* swapParams
          /\ pc' = IF NeedsWrap(args, local.fromToken) THEN "wrap_build" ELSE "quote"
          /\ UNCHANGED <<caught, log>>
       \/ (\E e \in CollaboratorErrors : Throw("wallet", e)) /\ UNCHANGED local
    /\ UNCHANGED <<tool, plugin, caller, depth, args, result>>
    /\ PipeOnly

\* wrap: registry.getProvider(preferredProvider), await selectedProvider.wrapToken
SwapWrapBuild ==
    /\ tool = "swap" /\ pc = "wrap_build"
    /\ \/ /\ args.provider # "none"
          /\ pc' = "wrap_send"
          /\ local' = [local EXCEPT !.provider = args.provider]
          /\ UNCHANGED <<caught, log>>
       \/ (\E e \in CollaboratorErrors : Throw("wrap", e)) /\ UNCHANGED local   \* no provider, or wrapToken rejects
    /\ UNCHANGED <<tool, plugin, caller, depth, args, result>>
    /\ PipeOnly

\* wrap: await wallet.signAndSendTransaction(network, wrapTx)
SwapWrapSend ==
    /\ tool = "swap" /\ pc = "wrap_send"
    /\ \/ /\ log' = Append(log, Event("wrap", "sent", depth))
          /\ pc' = "wrap_wait"
          /\ UNCHANGED caught
       \/ (\E e \in CollaboratorErrors : Throw("wrap", e))
    /\ UNCHANGED <<tool, plugin, caller, depth, args, local, result>>
    /\ PipeOnly

\* mutant: a wrap that was not confirmed does not stop getQuote
SwapWrapWait_NoHashCheck ==
    /\ tool = "swap" /\ pc = "wrap_wait"
    /\ \/ log' = Append(log, Event("wrap", "confirmed", depth))
       \/ log' = Append(log, Event("wrap", "failed", depth))
    /\ local' = [local EXCEPT !.swapFromToken = WBNB]
    /\ pc' = "quote"
    /\ UNCHANGED <<tool, plugin, caller, depth, args, caught, result>>
    /\ PipeOnly

\* wrap: await wrapReceipt.wait(); a result without hash is an error
SwapWrapWait ==
    /\ tool = "swap" /\ pc = "wrap_wait"
    /\ \/ /\ log' = Append(log, Event("wrap", "confirmed", depth))
          /\ local' = [local EXCEPT !.swapFromToken = WBNB]    \* swapParams.fromToken
          /\ pc' = "quote"
          /\ UNCHANGED caught
       \/ /\ pc' = "catch"                                 \* wait() rejects, or no hash
          /\ caught' \in CollaboratorErrors
          /\ log' = log \o <<Event("wrap", "failed", depth), Event("throw", "wrap", depth)>>
          /\ UNCHANGED local
    /\ UNCHANGED <<tool, plugin, caller, depth, args, result>>
    /\ PipeOnly

\* mutant: the balance check is skipped
AfterQuote_SkipBalance == "build"

\* where getQuote continues once it holds a provider and its quote
AfterQuote == "balance"

\* mutant: a preferred provider that cannot quote is replaced by findBestQuote
SwapGetProviderQuote_Fallback ==
    /\ tool = "swap" /\ pc = "quote"
    /\ \/ /\ args.provider # "none"
          /\ args.network \in ProviderNetworks(args.provider)
          /\ \E q \in PipeQuotes :
                /\ q.provider = args.provider
                /\ local' = [local EXCEPT !.provider = q.provider, !.quote = q]
                /\ log' = Append(log, Event("quote", local.swapFromToken, depth))
                /\ pc' = AfterQuote
                /\ UNCHANGED caught
       \/ \E q \in PipeQuotes :
             /\ q.provider \in plugin.providers
             /\ args.network \in ProviderNetworks(q.provider)
             /\ local' = [local EXCEPT !.provider = q.provider, !.quote = q]
             /\ log' = Append(log, Event("fanout", local.swapFromToken, depth))
             /\ pc' = AfterQuote
             /\ UNCHANGED caught
       \/ /\ pc' = "catch" /\ caught' = PlainError
          /\ log' = log \o <<Event("fanout", local.swapFromToken, depth),
                             Event("throw", "quote", depth)>>
          /\ UNCHANGED local
    /\ UNCHANGED <<tool, plugin, caller, depth, args, result>>
    /\ PipeOnly

\* getQuote STEP 4: the preferred provider's quote, or findBestQuote; the quote
\* is requested for swapParams, whose fromToken the log records
SwapGetProviderQuote ==
    /\ tool = "swap" /\ pc = "quote"
    /\ IF args.provider # "none"
       THEN IF args.network \notin ProviderNetworks(args.provider)
            THEN /\ Throw("quote", createError("provider_validation", "other", ""))
                 /\ UNCHANGED local
            ELSE \/ \E q \in PipeQuotes :            \* selectedProvider.getQuote
                      /\ q.provider = args.provider
                      /\ local' = [local EXCEPT !.provider = q.provider, !.quote = q]
                      /\ log' = Append(log, Event("quote", local.swapFromToken, depth))
                      /\ pc' = AfterQuote
                      /\ UNCHANGED caught
                 \/ /\ pc' = "catch"           \* throw `Error in provider getQuote ...`
                    /\ caught' = StringThrow
                    /\ log' = log \o <<Event("quote", local.swapFromToken, depth),
                                       Event("throw", "quote", depth)>>
                    /\ UNCHANGED local
       ELSE \/ \E q \in PipeQuotes :                 \* findBestQuote returns
                 /\ q.provider \in plugin.providers
                 /\ args.network \in ProviderNetworks(q.provider)
                 /\ local' = [local EXCEPT !.provider = q.provider, !.quote = q]
                 /\ log' = Append(log, Event("fanout", local.swapFromToken, depth))
                 /\ pc' = AfterQuote
                 /\ UNCHANGED caught
            \/ /\ pc' = "catch" /\ caught' = PlainError   \* findBestQuote throws
               /\ log' = log \o <<Event("fanout", local.swapFromToken, depth),
                                  Event("throw", "quote", depth)>>
               /\ UNCHANGED local
    /\ UNCHANGED <<tool, plugin, caller, depth, args, result>>
    /\ PipeOnly

\* getQuote STEP 5: await selectedProvider.checkBalance(quote, userAddress)
SwapCheckBalance ==
    /\ tool = "swap" /\ pc = "balance"
    /\ \/ \E balanceCheck \in BalanceChecks :
            /\ local' = [local EXCEPT !.balanceCheck = balanceCheck]
            /\ IF balanceCheck.isValid
               THEN /\ pc' = "build"
                    /\ log' = Append(log, Event("balance", "valid", depth))
                    /\ UNCHANGED caught
               ELSE /\ pc' = "catch"      \* throw 'Insufficient balance for this swap'
                    /\ caught' = Err(FALSE, "", "insufficient_balance_swap", "")
                    /\ log' = log \o <<Event("balance", "invalid", depth),
                                       Event("throw", "balance", depth)>>
       \/ (\E e \in CollaboratorErrors : Throw("balance", e)) /\ UNCHANGED local     \* checkBalance rejects
    /\ UNCHANGED <<tool, plugin, caller, depth, args, result>>
    /\ PipeOnly

\* mutant: STEP 7 runs on every network
HasAllowanceModel_Always(network) == TRUE

\* STEP 7 runs for the networks with an allowance model
HasAllowanceModel(network) == network # "solana" /\ network # "hyperliquid"

\* STEP 6: await selectedProvider.buildSwapTransaction(quote, userAddress)
SwapBuild ==
    /\ tool = "swap" /\ pc = "build"
    /\ \/ /\ local' = [local EXCEPT !.spender = "0xspender"]
          /\ pc' = IF HasAllowanceModel(args.network) THEN "allowance" ELSE "execute"
          /\ log' = Append(log, Event("build", "returned", depth))
          /\ UNCHANGED caught
       \/ (\E e \in CollaboratorErrors : Throw("build", e)) /\ UNCHANGED local
    /\ UNCHANGED <<tool, plugin, caller, depth, args, result>>
    /\ PipeOnly

\* mutant: an approval also when the allowance equals the required amount
NeedsApproval_LessEq(allowance, requiredAmount) == allowance <= requiredAmount

\* the test "allowance < requiredAmount" of both tools
NeedsApproval(allowance, requiredAmount) == allowance < requiredAmount

\* STEP 7: await selectedProvider.checkAllowance(...), parseTokenAmount, the test
SwapCheckAllowance ==
    /\ tool = "swap" /\ pc = "allowance"
    /\ \/ \E a \in 0 .. MaxAllowance :
            LET requiredAmount == parseTokenAmount(local.quote.fromAmount,
                                                   local.quote.decimals)
            IN  /\ local' = [local EXCEPT !.allowance = a,
                                          !.requiredAmount = requiredAmount]
                /\ pc' = IF NeedsApproval(a, requiredAmount)
                         THEN "approve_build" ELSE "execute"
                /\ log' = Append(log, Event("allowance", "checked", depth))
                /\ UNCHANGED caught
       \/ (\E e \in CollaboratorErrors : Throw("allowance", e)) /\ UNCHANGED local
    /\ UNCHANGED <<tool, plugin, caller, depth, args, result>>
    /\ PipeOnly

\* STEP 7: await selectedProvider.buildApproveTransaction(...)
SwapApproveBuild ==
    /\ tool = "swap" /\ pc = "approve_build"
    /\ \/ pc' = "approve_send" /\ UNCHANGED <<caught, log>>
       \/ (\E e \in CollaboratorErrors : Throw("approve_build", e))
    /\ UNCHANGED <<tool, plugin, caller, depth, args, local, result>>
    /\ PipeOnly

\* mutant: the confirmation wait is skipped (a missing await on wait())
AfterApproveSent_NoWait == "execute"

\* where func continues once signAndSendTransaction(approveTx) has resolved
AfterApproveSent == "approve_wait"

\* STEP 7: await wallet.signAndSendTransaction(network, approveTx)
SwapApproveSend ==
    /\ tool = "swap" /\ pc = "approve_send"
    /\ \/ /\ log' = Append(log, Event("approve", "sent", depth))
          /\ pc' = AfterApproveSent
          /\ UNCHANGED caught
       \/ (\E e \in CollaboratorErrors : Throw("approve_send", e))
    /\ UNCHANGED <<tool, plugin, caller, depth, args, local, result>>
    /\ PipeOnly

\* mutant: the inner catch swallows a failed approval instead of rethrowing
SwapApproveWait_Swallow ==
    /\ tool = "swap" /\ pc = "approve_wait"
    /\ \/ log' = Append(log, Event("approve", "confirmed", depth))
       \/ log' = Append(log, Event("approve", "failed", depth))
    /\ pc' = "execute"
    /\ UNCHANGED <<tool, plugin, caller, depth, args, local, caught, result>>
    /\ PipeOnly

\* STEP 7: await approveReceipt.wait()
SwapApproveWait ==
    /\ tool = "swap" /\ pc = "approve_wait"
    /\ \/ /\ log' = Append(log, Event("approve", "confirmed", depth))
          /\ pc' = "execute"
          /\ UNCHANGED caught
       \/ /\ pc' = "catch"
          /\ caught' \in CollaboratorErrors
          /\ log' = log \o <<Event("approve", "failed", depth),
                             Event("throw", "approve_wait", depth)>>
    /\ UNCHANGED <<tool, plugin, caller, depth, args, local, result>>
    /\ PipeOnly

\* STEP 8: send the swap; on hyperliquid the provider sends it itself
SwapExecute ==
    /\ tool = "swap" /\ pc = "execute"
    /\ IF args.network = "hyperliquid"
       THEN \/ \E h \in {"0xhash", ""} :    \* receipt = await buildSendTransaction(...)
                 /\ log' = log \o <<Event("primary", "sent", depth),
                                    Event("primary", "confirmed", depth)>>
                 /\ local' = [local EXCEPT !.hash = h]
                 /\ pc' = "invalidate"
                 /\ UNCHANGED caught
            \/ (\E e \in CollaboratorErrors : Throw("execute", e)) /\ UNCHANGED local
       ELSE \/ /\ log' = Append(log, Event("primary", "sent", depth))
               /\ pc' = "execute_wait"
               /\ UNCHANGED <<caught, local>>
            \/ (\E e \in CollaboratorErrors : Throw("execute", e)) /\ UNCHANGED local
    /\ UNCHANGED <<tool, plugin, caller, depth, args, result>>
    /\ PipeOnly

\* STEP 8: finalReceipt = await receipt?.wait()
SwapExecuteWait ==
    /\ tool = "swap" /\ pc = "execute_wait"
    /\ \/ \E h \in {"0xhash", ""} :
            /\ log' = Append(log, Event("primary", "confirmed", depth))
            /\ local' = [local EXCEPT !.hash = h]
            /\ pc' = "invalidate"
            /\ UNCHANGED caught
       \/ /\ pc' = "catch"
          /\ caught' \in CollaboratorErrors
          /\ log' = log \o <<Event("primary", "failed", depth),
                             Event("throw", "execute_wait", depth)>>
          /\ UNCHANGED local
    /\ UNCHANGED <<tool, plugin, caller, depth, args, result>>
    /\ PipeOnly

\* mutant: the invalidation is not inside a try / catch of its own
SwapInvalidate_Propagate ==
    /\ tool = "swap" /\ pc = "invalidate"
    /\ \/ /\ log' = Append(log, Event("invalidate", "ok", depth))
          /\ pc' = "return"
          /\ UNCHANGED caught
       \/ /\ log' = log \o <<Event("invalidate", "threw", depth),
                             Event("throw", "invalidate", depth)>>
          /\ pc' = "catch"
          /\ caught' = PlainError
    /\ UNCHANGED <<tool, plugin, caller, depth, args, local, result>>
    /\ PipeOnly

\* the two invalidateBalanceCache calls, inside their own try / catch
SwapInvalidate ==
    /\ tool = "swap" /\ pc = "invalidate"
    /\ \E ev \in {"ok", "threw"} : log' = Append(log, Event("invalidate", ev, depth))
    /\ pc' = "return"
    /\ UNCHANGED <<tool, plugin, caller, depth, args, local, caught, result>>
    /\ PipeOnly

\* return JSON.stringify(result)
SwapReturn ==
    /\ tool = "swap" /\ pc = "return"
    /\ result' = [status |-> "success", provider |-> local.provider,
                  hash |-> local.hash, step |-> "", message |-> ""]
    /\ pc' = "done"
    /\ UNCHANGED <<tool, plugin, caller, depth, args, local, caught, log>>
    /\ PipeOnly

\* the catch block's test for an error it may try to fix
isTokenValidationError(error) ==
    \/ error.step = "token_validation"
    \/ error.step = "token_not_found"
    \/ error.msg = "invalid_from"
    \/ error.msg = "invalid_to"

\* mutant: the catch block does not look at args._attempt
SwapCatch_NoAttemptGuard ==
    /\ tool = "swap" /\ pc = "catch"
    /\ IF caught.isObj /\ isTokenValidationError(caught)
       THEN pc' = "fix" /\ UNCHANGED result
       ELSE pc' = "done" /\ result' = handleError(caught)
    /\ UNCHANGED <<tool, plugin, caller, depth, args, local, caught, log>>
    /\ PipeOnly

\* func's catch block
SwapCatch ==
    /\ tool = "swap" /\ pc = "catch"
    /\ IF caught.isObj /\ isTokenValidationError(caught) /\ ~args.attempt
       THEN pc' = "fix" /\ UNCHANGED result
       ELSE pc' = "done" /\ result' = handleError(caught)
    /\ UNCHANGED <<tool, plugin, caller, depth, args, local, caught, log>>
    /\ PipeOnly

\* mutant: the symbols are compared as written
SymbolMatches_CaseSensitive(tokenInfos, ref) ==
    {t.address : t \in {u \in tokenInfos : u.symbol = ref}}

\* the addresses of the table whose symbol equals ref, ignoring case
SymbolMatches(tokenInfos, ref) ==
    {t.address : t \in {u \in tokenInfos : toLowerCase(u.symbol) = toLowerCase(ref)}}

\* mutant: both references are looked up, whichever the error names
updatedArgs_FixBoth(a, error) ==
    LET tokenInfos == defaultTokens(a.network)
        fromFix == SymbolMatches(tokenInfos, a.fromToken)
        toFix   == SymbolMatches(tokenInfos, a.toToken)
        u0 == [a EXCEPT !.attempt = TRUE]
        u1 == IF fromFix # {}
              THEN [u0 EXCEPT !.fromToken = CHOOSE x \in fromFix : TRUE] ELSE u0
        u2 == IF toFix # {}
              THEN [u1 EXCEPT !.toToken = CHOOSE x \in toFix : TRUE] ELSE u1
    IN  [args |-> u2, found |-> fromFix # {} \/ toFix # {}]

\* attemptTokenAddressFix(args, error): updatedArgs, and whether an address was found
updatedArgs(a, error) ==
    LET tokenInfos == defaultTokens(a.network)
        isFrom  == error.msg = "invalid_from" \/ error.tokenType = "fromToken"
        isTo    == error.msg = "invalid_to" \/ error.tokenType = "toToken"
        fromFix == IF isFrom THEN SymbolMatches(tokenInfos, a.fromToken) ELSE {}
        toFix   == IF isTo THEN SymbolMatches(tokenInfos, a.toToken) ELSE {}
        u0 == [a EXCEPT !.attempt = TRUE]
        u1 == IF fromFix # {}
              THEN [u0 EXCEPT !.fromToken = CHOOSE x \in fromFix : TRUE] ELSE u0
        u2 == IF toFix # {}
              THEN [u1 EXCEPT !.toToken = CHOOSE x \in toFix : TRUE] ELSE u1
    IN  [args |-> u2, found |-> fromFix # {} \/ toFix # {}]

\* the error attemptTokenAddressFix reports when it does not retry
FixGivesUp(network) ==
    IF defaultTokens(network) = {}
    THEN createError("token_not_found", "no_token_information", "")
    ELSE createError("token_not_found", "could_not_find_address", "")

\* mutant: without a retry the caught error itself is reported
SwapAttemptTokenAddressFix_SurfaceOriginal ==
    /\ tool = "swap" /\ pc = "fix"
    /\ LET fix == updatedArgs(args, caught)
       IN  IF defaultTokens(args.network) # {} /\ fix.found
           THEN /\ depth' = depth + 1
                /\ args' = fix.args
                /\ local' = NoLocal
                /\ caught' = NoErr
                /\ pc' = "start"
                /\ UNCHANGED result
           ELSE /\ result' = handleError(caught)
                /\ pc' = "done"
                /\ UNCHANGED <<depth, args, local, caught>>
    /\ UNCHANGED <<tool, plugin, caller, log>>
    /\ PipeOnly

\* attemptTokenAddressFix: retry through createTool().func(updatedArgs), or give up
SwapAttemptTokenAddressFix ==
    /\ tool = "swap" /\ pc = "fix"
    /\ LET fix == updatedArgs(args, caught)
       IN  IF defaultTokens(args.network) # {} /\ fix.found
           THEN /\ depth' = depth + 1
                /\ args' = fix.args
                /\ local' = NoLocal
                /\ caught' = NoErr
                /\ pc' = "start"
                /\ UNCHANGED result
           ELSE /\ result' = handleError(FixGivesUp(args.network))
                /\ pc' = "done"
                /\ UNCHANGED <<depth, args, local, caught>>
    /\ UNCHANGED <<tool, plugin, caller, log>>
    /\ PipeOnly

(***************************************************************************)
(* StakingTool.createTool().func, with the getQuote it awaits.             *)
(***************************************************************************)

\* getQuote: validateTokenAddress (its object result is never falsy),
\* await wallet.getAddress, the network test
StakeValidate ==
    /\ tool = "staking" /\ pc = "start"
    /\ \/ /\ args.network \in getSupportedNetworks
          /\ local' = [local EXCEPT !.userAddress = "0xuser"]
          /\ pc' = "quote"
          /\ UNCHANGED <<caught, log>>
       \/ /\ args.network \notin getSupportedNetworks
          /\ Throw("network_validation", PlainError)
          /\ UNCHANGED local
       \/ /\ \E e \in StakeCollaboratorErrors : Throw("wallet", e)   \* getAddress rejects
          /\ UNCHANGED local
    /\ UNCHANGED <<tool, plugin, caller, depth, args, result>>
    /\ PipeOnly

\* mutant: a preferred provider that cannot quote fails the operation
StakeGetProviderQuote_NoFallback ==
    /\ tool = "staking" /\ pc = "quote"
    /\ IF args.provider = "none"
       THEN pc' = "fanout" /\ UNCHANGED <<local, caught, log>>
       ELSE IF args.provider \notin plugin.providers
               \/ args.network \notin ProviderNetworks(args.provider)
       THEN Throw("quote", PlainError) /\ UNCHANGED local
       ELSE \/ \E q \in PipeQuotes :
                 /\ q.provider = args.provider
                 /\ local' = [local EXCEPT !.provider = q.provider, !.quote = q]
                 /\ log' = Append(log, Event("quote", args.fromToken, depth))
                 /\ pc' = "balance"
                 /\ UNCHANGED caught
            \/ /\ pc' = "catch" /\ caught' = PlainError
               /\ log' = log \o <<Event("quote", args.fromToken, depth),
                                  Event("throw", "quote", depth)>>
               /\ UNCHANGED local
    /\ UNCHANGED <<tool, plugin, caller, depth, args, result>>
    /\ PipeOnly

\* getQuote, if (preferredProvider): registry.getProvider, the provider's
\* network test and its getQuote inside try; the catch goes on to findBestQuote
\* (log: fallback, with whether the provider had been asked)
StakeGetProviderQuote ==
    /\ tool = "staking" /\ pc = "quote"
    /\ IF args.provider = "none"
       THEN pc' = "fanout" /\ UNCHANGED <<local, caught, log>>
       ELSE IF args.provider \notin plugin.providers        \* unknown provider
               \/ args.network \notin ProviderNetworks(args.provider)
       THEN /\ log' = Append(log, Event("fallback", "not_asked", depth))
            /\ pc' = "fanout"
            /\ UNCHANGED <<local, caught>>
       ELSE \/ \E q \in PipeQuotes :                  \* selectedProvider.getQuote
                 /\ q.provider = args.provider
                 /\ local' = [local EXCEPT !.provider = q.provider, !.quote = q]
                 /\ log' = Append(log, Event("quote", args.fromToken, depth))
                 /\ pc' = "balance"
                 /\ UNCHANGED caught
            \/ /\ log' = log \o <<Event("quote", args.fromToken, depth),
                                  Event("fallback", "quote_failed", depth)>>
               /\ pc' = "fanout"
               /\ UNCHANGED <<local, caught>>
    /\ UNCHANGED <<tool, plugin, caller, depth, args, result>>
    /\ PipeOnly

\* getQuote: await this.findBestQuote(...), which throws without a provider of
\* the network or without a valid quote
StakeFindBestQuote ==
    /\ tool = "staking" /\ pc = "fanout"
    /\ \/ \E q \in PipeQuotes :
            /\ q.provider \in plugin.providers
            /\ args.network \in ProviderNetworks(q.provider)
            /\ local' = [local EXCEPT !.provider = q.provider, !.quote = q]
            /\ log' = Append(log, Event("fanout", args.fromToken, depth))
            /\ pc' = "balance"
            /\ UNCHANGED caught
       \/ /\ pc' = "catch" /\ caught' = PlainError
          /\ log' = log \o <<Event("fanout", args.fromToken, depth),
                             Event("throw", "quote", depth)>>
          /\ UNCHANGED local
    /\ UNCHANGED <<tool, plugin, caller, depth, args, result>>
    /\ PipeOnly

\* getQuote: await selectedProvider.checkBalance(quote, userAddress)
StakeCheckBalance ==
    /\ tool = "staking" /\ pc = "balance"
    /\ \/ \E balanceCheck \in BalanceChecks :
            /\ local' = [local EXCEPT !.balanceCheck = balanceCheck]
            /\ IF balanceCheck.isValid
               THEN /\ pc' = "build"
                    /\ log' = Append(log, Event("balance", "valid", depth))
                    /\ UNCHANGED caught
               ELSE /\ pc' = "catch"     \* new Error(balanceCheck.message || ...)
                    /\ caught' = Err(TRUE, "",
                                     IF balanceCheck.message # "" THEN balanceCheck.message
                                     ELSE "insufficient_balance_staking", "")
                    /\ log' = log \o <<Event("balance", "invalid", depth),
                                       Event("throw", "balance", depth)>>
       \/ (\E e \in StakeCollaboratorErrors : Throw("balance", e)) /\ UNCHANGED local    \* checkBalance rejects
    /\ UNCHANGED <<tool, plugin, caller, depth, args, result>>
    /\ PipeOnly

\* await selectedProvider.buildStakingTransaction(quote, userAddress)
StakeBuild ==
    /\ tool = "staking" /\ pc = "build"
    /\ \/ /\ local' = [local EXCEPT !.spender = "0xstaking"]   \* stakingTx.to
          /\ pc' = "allowance"
          /\ log' = Append(log, Event("build", "returned", depth))
          /\ UNCHANGED caught
       \/ (\E e \in StakeCollaboratorErrors : Throw("build", e)) /\ UNCHANGED local
    /\ UNCHANGED <<tool, plugin, caller, depth, args, result>>
    /\ PipeOnly

\* await selectedProvider.checkAllowance(...), parseTokenAmount, the test
StakeCheckAllowance ==
    /\ tool = "staking" /\ pc = "allowance"
    /\ \/ \E a \in 0 .. MaxAllowance :
            LET requiredAmount == parseTokenAmount(local.quote.fromAmount,
                                                   local.quote.decimals)
            IN  /\ local' = [local EXCEPT !.allowance = a,
                                          !.requiredAmount = requiredAmount]
                /\ pc' = IF NeedsApproval(a, requiredAmount)
                         THEN "approve_build" ELSE "execute"
                /\ log' = Append(log, Event("allowance", "checked", depth))
                /\ UNCHANGED caught
       \/ (\E e \in StakeCollaboratorErrors : Throw("allowance", e)) /\ UNCHANGED local
    /\ UNCHANGED <<tool, plugin, caller, depth, args, result>>
    /\ PipeOnly

\* await selectedProvider.buildApproveTransaction(...)
StakeApproveBuild ==
    /\ tool = "staking" /\ pc = "approve_build"
    /\ \/ pc' = "approve_send" /\ UNCHANGED <<caught, log>>
       \/ (\E e \in StakeCollaboratorErrors : Throw("approve_build", e))
    /\ UNCHANGED <<tool, plugin, caller, depth, args, local, result>>
    /\ PipeOnly

\* await wallet.signAndSendTransaction(network, approveTx)
StakeApproveSend ==
    /\ tool = "staking" /\ pc = "approve_send"
    /\ \/ /\ log' = Append(log, Event("approve", "sent", depth))
          /\ pc' = AfterApproveSent
          /\ UNCHANGED caught
       \/ (\E e \in StakeCollaboratorErrors : Throw("approve_send", e))
    /\ UNCHANGED <<tool, plugin, caller, depth, args, local, result>>
    /\ PipeOnly

\* await approveReceipt.wait()
StakeApproveWait ==
    /\ tool = "staking" /\ pc = "approve_wait"
    /\ \/ /\ log' = Append(log, Event("approve", "confirmed", depth))
          /\ pc' = "execute"
          /\ UNCHANGED caught
       \/ /\ pc' = "catch"
          /\ caught' \in StakeCollaboratorErrors
          /\ log' = log \o <<Event("approve", "failed", depth),
                             Event("throw", "approve_wait", depth)>>
    /\ UNCHANGED <<tool, plugin, caller, depth, args, local, result>>
    /\ PipeOnly

\* await wallet.signAndSendTransaction(network, stakingTx)
StakeExecute ==
    /\ tool = "staking" /\ pc = "execute"
    /\ \/ /\ log' = Append(log, Event("primary", "sent", depth))
          /\ pc' = "execute_wait"
          /\ UNCHANGED caught
       \/ (\E e \in StakeCollaboratorErrors : Throw("execute", e))
    /\ UNCHANGED <<tool, plugin, caller, depth, args, local, result>>
    /\ PipeOnly

\* finalReceipt = await receipt.wait(); return the success record
StakeExecuteWait ==
    /\ tool = "staking" /\ pc = "execute_wait"
    /\ \/ \E h \in {"0xhash", ""} :
            /\ log' = Append(log, Event("primary", "confirmed", depth))
            /\ local' = [local EXCEPT !.hash = h]
            /\ result' = [status |-> "success", provider |-> local.provider,
                          hash |-> h, step |-> "", message |-> ""]
            /\ pc' = "done"
            /\ UNCHANGED caught
       \/ /\ pc' = "catch"
          /\ caught' \in StakeCollaboratorErrors
          /\ log' = log \o <<Event("primary", "failed", depth),
                             Event("throw", "execute_wait", depth)>>
          /\ UNCHANGED <<local, result>>
    /\ UNCHANGED <<tool, plugin, caller, depth, args>>
    /\ PipeOnly

\* JSON.stringify of a thrown value used as a field: an Error has no enumerable
\* property and serialises as {}, a string as itself
StringifyError(error) == IF error.isObj THEN "{}" ELSE error.msg

\* func's catch block: return JSON.stringify({ status: 'error', message: error });
\* when JSON.stringify throws there, the promise of func rejects
StakeCatch ==
    /\ tool = "staking" /\ pc = "catch"
    /\ IF CanStringify(caught)
       THEN /\ result' = [status |-> "error", provider |-> "none", hash |-> "",
                          step |-> "", message |-> StringifyError(caught)]
            /\ pc' = "done"
       ELSE /\ pc' = "rejected"
            /\ UNCHANGED result
    /\ UNCHANGED <<tool, plugin, caller, depth, args, local, caught, log>>
    /\ PipeOnly

(***************************************************************************)
(* Numbers of the comparator.  A decimal string without fraction is the    *)
(* natural number hi * 2^27 + lo, kept as <<hi, lo>>; the model uses        *)
(* naturals below 2^54, on which the IEEE-754 double arithmetic of         *)
(* Number(), * and Math.floor is computed exactly as JavaScript does.      *)
(***************************************************************************)
Limb == 2^27
Num(n) == <<0, n>>                          \* n < 2^27
NumLess(a, b) == a[1] < b[1] \/ (a[1] = b[1] /\ a[2] < b[2])
NumCarry(hi, lo) == <<hi + (lo \div Limb), lo % Limb>>
NumTimes10(a) == NumCarry(a[1] * 10, a[2] * 10)

RECURSIVE NumTimesPow10(_, _)
NumTimesPow10(a, d) == IF d = 0 THEN a ELSE NumTimesPow10(NumTimes10(a), d - 1)

\* the nearest double (ties to even) of a natural below 2^54: naturals below
\* 2^53 are doubles; from 2^53 on only the even ones are
ToDouble(a) ==
    IF a[1] < 2^26 \/ a[2] % 2 = 0 THEN a
    ELSE IF ((a[2] - 1) \div 2) % 2 = 0
         THEN <<a[1], a[2] - 1>>
         ELSE NumCarry(a[1], a[2] + 1)

\* Math.floor(Number(amount) * 10 ** decimals)
FloorScaled(amount, decimals) ==
    ToDouble(NumTimesPow10(ToDouble(amount), decimals))

\* the amount in base units: amount * 10^decimals, exactly
Normalized(amount, decimals) == NumTimesPow10(amount, decimals)

(***************************************************************************)
(* ProviderRegistry and findBestQuote.                                     *)
(***************************************************************************)
\* the providers, in registration order, with getSupportedNetworks()
registry ==
    << [name |-> "P1", networks |-> {"bnb"}],
       [name |-> "P2", networks |-> {"bnb", "solana"}],
       [name |-> "P3", networks |-> {"bnb", "ethereum"}] >>

RECURSIVE SelectIndices(_, _, _)
SelectIndices(reg, network, i) ==
    IF i > Len(reg) THEN <<>>
    ELSE (IF network \in reg[i].networks THEN <<i>> ELSE <<>>)
         \o SelectIndices(reg, network, i + 1)

\* registry.getProvidersByNetwork(network): registry indices, registration order
getProvidersByNetwork(network) == SelectIndices(registry, network, 1)

\* what a provider's getQuote answers: a rejection, or the side it prices
Fail(i)     == [ok |-> FALSE, amount |-> Num(0), decimals |-> 0, reason |-> i]
Priced(a,d) == [ok |-> TRUE, amount |-> a, decimals |-> d, reason |-> 0]

\* the quote a provider returns: the requested side is params.amount, the
\* other side is the provider's price (staking quotes: amountA is the price)
QuoteOf(p, resp) ==
    IF p.type = "input"
    THEN [fromAmount |-> p.amount, fromDecimals |-> p.decimals,
          toAmount |-> resp.amount, toDecimals |-> resp.decimals]
    ELSE [fromAmount |-> resp.amount, fromDecimals |-> resp.decimals,
          toAmount |-> p.amount, toDecimals |-> p.decimals]

NoEntry     == [st |-> "pending", provider |-> 0, quote |-> QuoteOf([type |-> "input",
                   amount |-> Num(0), decimals |-> 0], Priced(Num(0), 0))]
\* the mapper's results: { provider, quote }, or null from its catch block
OkEntry(i, q) == [st |-> "ok", provider |-> i, quote |-> q]
NullEntry(i)  == [st |-> "null", provider |-> i, quote |-> NoEntry.quote]

\* mutant: the mapper has no try / catch, its promise rejects
MapperResult_NoCatch(p, i, resp) ==
    IF resp.ok THEN OkEntry(i, QuoteOf(p, resp))
    ELSE [st |-> "rejected", provider |-> i, quote |-> NoEntry.quote]

\* the mapper around provider.getQuote: try { return {provider, quote} } catch { return null }
MapperResult(p, i, resp) ==
    IF resp.ok THEN OkEntry(i, QuoteOf(p, resp)) ELSE NullEntry(i)

\* mutant: results are collected in the order the calls complete
StoreResult_CompletionOrder(results, k, entry) ==
    LET first == CHOOSE j \in Indices(results) :
                    /\ results[j].st = "pending"
                    /\ \A h \in 1 .. j - 1 : results[h].st # "pending"
    IN  [results EXCEPT ![first] = entry]

\* Promise.all keeps each result at the index of its promise
StoreResult(results, k, entry) == [results EXCEPT ![k] = entry]

\* SwapTool's reducer: which of best and current the fold keeps
SwapBetter(type, best, current) ==
    IF type = "input"
    THEN LET bestAmount    == FloorScaled(best.quote.toAmount, best.quote.toDecimals)
             currentAmount == FloorScaled(current.quote.toAmount, current.quote.toDecimals)
         IN  IF NumLess(bestAmount, currentAmount) THEN current ELSE best
    ELSE LET bestAmount    == FloorScaled(best.quote.toAmount, best.quote.toDecimals)
             currentAmount == FloorScaled(current.quote.fromAmount,
                                          current.quote.fromDecimals)
         IN  IF NumLess(currentAmount, bestAmount) THEN current ELSE best

\* StakingTool's reducer (amountA / tokenA are the from side of the record)
StakeBetter(best, current) ==
    LET bestAmount    == FloorScaled(best.quote.fromAmount, best.quote.fromDecimals)
        currentAmount == FloorScaled(current.quote.fromAmount, current.quote.fromDecimals)
    IN  IF NumLess(currentAmount, bestAmount) THEN current ELSE best

Better(t, type, best, current) ==
    IF t = "swap" THEN SwapBetter(type, best, current) ELSE StakeBetter(best, current)

RECURSIVE Reduce(_, _, _, _)
\* validQuotes.reduce(reducer, best)
Reduce(t, type, valid, best) ==
    IF valid = <<>> THEN best
    ELSE Reduce(t, type, Tail(valid), Better(t, type, best, Head(valid)))

IsOk(e) == e.st = "ok"
NoOutcome == [kind |-> "none", provider |-> 0, message |-> "", reasons |-> {}]
\* new Error(message): a message and nothing else
ErrorOutcome(message) ==
    [kind |-> "error", provider |-> 0, message |-> message, reasons |-> {}]

\* mutant: the validQuotes.length === 0 test is missing (reduce returns undefined)
JoinOutcome_NoEmptyTest(t, type, results) ==
    LET validQuotes == SelectSeq(results, IsOk)
    IN  [kind |-> "ok",
         provider |-> IF validQuotes = <<>> THEN 0
                      ELSE Reduce(t, type, validQuotes, validQuotes[1]).provider,
         message |-> "", reasons |-> {}]

\* what findBestQuote does with the array Promise.all resolved with
JoinOutcome(t, type, results) ==
    LET validQuotes == SelectSeq(results, IsOk)
    IN  IF validQuotes = <<>>
        THEN ErrorOutcome("No valid quotes found")
        ELSE [kind |-> "ok",
              provider |-> Reduce(t, type, validQuotes, validQuotes[1]).provider,
              message |-> "", reasons |-> {}]

QuoteOnly == UNCHANGED <<pipeVars, cacheVars, auxVars>>
IdleFan == [st |-> "idle", providers |-> <<>>, results |-> <<>>, order |-> <<>>]

\* findBestQuote up to its await: no provider throws, else every mapper has
\* called its provider's getQuote
FanOutStart(r) ==
    /\ fan[r].st = "idle"
    /\ LET providers == getProvidersByNetwork(params.network)
       IN  IF providers = <<>>
           THEN /\ outcome' = [outcome EXCEPT ![r] = ErrorOutcome("No providers available")]
                /\ fan' = [fan EXCEPT ![r].st = "joined"]
           ELSE /\ fan' = [fan EXCEPT ![r] = [st |-> "pending", providers |-> providers,
                               results |-> [k \in Indices(providers) |-> NoEntry],
                               order |-> <<>>]]
                /\ UNCHANGED outcome
    /\ UNCHANGED <<qtool, params, responses, logged>>
    /\ QuoteOnly

\* one provider's getQuote settles, in any order; a rejection is logged
ProviderSettles(r, k) ==
    /\ fan[r].st = "pending"
    /\ k \in Indices(fan[r].providers)
    /\ k \notin {fan[r].order[j] : j \in Indices(fan[r].order)}
    /\ LET i == fan[r].providers[k]
           entry == MapperResult(params, i, responses[i])
       IN  /\ fan' = [fan EXCEPT ![r].results = StoreResult(@, k, entry),
                                 ![r].order = Append(@, k)]
           /\ logged' = [logged EXCEPT ![r] =
                            IF responses[i].ok THEN @
                            ELSE @ \cup {[provider |-> i, reason |-> responses[i].reason]}]
    /\ UNCHANGED <<qtool, params, responses, outcome>>
    /\ QuoteOnly

\* Promise.all resolves once every mapper has returned: filter, test, reduce
FanOutJoin(r) ==
    /\ fan[r].st = "pending"
    /\ Len(fan[r].order) = Len(fan[r].providers)
    /\ fan' = [fan EXCEPT ![r].st = "joined"]
    /\ outcome' = [outcome EXCEPT ![r] =
                      IF \E k \in Indices(fan[r].results) : fan[r].results[k].st = "rejected"
                      THEN ErrorOutcome("rejected")
                      ELSE JoinOutcome(qtool, params.type, fan[r].results)]
    /\ UNCHANGED <<qtool, params, responses, logged>>
    /\ QuoteOnly

(***************************************************************************)
(* The providers' quote stores: FourMemeProvider and SolanaProvider.       *)
(***************************************************************************)
FM_QUOTE_EXPIRY  == 300000      \* CONSTANTS.QUOTE_EXPIRY of FourMemeProvider, ms
SOL_QUOTE_EXPIRY == 600000      \* CONSTANTS.QUOTE_EXPIRY of SolanaProvider, ms

QuoteIds  == {"q1", "q2"}       \* what the random quote ids may come out as
Wallets   == {"0xA", "0xB"}
CacheOnly == UNCHANGED <<pipeVars, quoteVars, auxVars>>

\* Map.prototype.set
MapSet(m, key, value) ==
    [x \in DOMAIN m \cup {key} |-> IF x = key THEN value ELSE m[x]]
EmptyMap == [x \in {} |-> 0]

QuoteExpiry(p) == IF p = "four-meme" THEN FM_QUOTE_EXPIRY ELSE SOL_QUOTE_EXPIRY

\* time passes between two calls
Tick ==
    /\ ticks < MaxTicks
    /\ \E d \in {1, QuoteExpiry(prov) - 1} : now' = now + d
    /\ ticks' = ticks + 1
    /\ UNCHANGED <<fmQuotes, solQuotes, issued, prov, lastBuild>>
    /\ CacheOnly

\* the TransferQuote SolanaProvider.getQuote builds
NewQuote(id, from) ==
    [quoteId |-> id, fromAddress |-> from, toAddress |-> "0xR", amount |-> 1]
\* the SwapQuote FourMemeProvider.getQuote builds: it names no address at all
\* ("" below); its tx.value stands for its amounts
NewSwapQuote(id) ==
    [quoteId |-> id, fromAddress |-> "", toAddress |-> "", amount |-> 1]

\* quote objects a caller may hand to a build call: the ones getQuote returned,
\* and copies of them with one field changed
Tampered(q) ==
    {[q EXCEPT !.amount = 2], [q EXCEPT !.toAddress = "0xE"]}
        \cup {[q EXCEPT !.fromAddress = w] : w \in Wallets \ {q.fromAddress}}
Presentable == UNION {{i.quote} \cup Tampered(i.quote) : i \in issued}

\* FourMemeProvider.getQuote(params, userAddress)
FourMemeGetQuote ==
    /\ prov = "four-meme"
    /\ Cardinality(issued) < MaxQuotes
    /\ \E id \in QuoteIds, user \in Wallets :
         LET quote == NewSwapQuote(id)
         IN  /\ fmQuotes' = MapSet(fmQuotes, id,
                                   [quote |-> quote, expiresAt |-> now + FM_QUOTE_EXPIRY])
             /\ issued' = issued \cup {[quote |-> quote, at |-> now, user |-> user]}
    /\ UNCHANGED <<now, ticks, solQuotes, prov, lastBuild>>
    /\ CacheOnly

NoTx == [to |-> "", value |-> 0]
NoBuild ==
    [quote |-> NewQuote("", ""), wallet |-> "", at |-> 0, outcome |-> "none",
     stored |-> FALSE, expiresAt |-> 0, cached |-> NewQuote("", ""), tx |-> NoTx]
\* one build call: its arguments, the store's entry for the id, what it returned
BuildCall(quote, wallet, m, out, tx) ==
    [quote |-> quote, wallet |-> wallet, at |-> now, outcome |-> out,
     stored |-> quote.quoteId \in DOMAIN m,
     expiresAt |-> IF quote.quoteId \in DOMAIN m THEN m[quote.quoteId].expiresAt ELSE 0,
     cached |-> IF quote.quoteId \in DOMAIN m THEN m[quote.quoteId].quote
                ELSE NewQuote("", ""),
     tx |-> IF out = "tx" THEN tx ELSE NoTx]

\* FourMemeProvider.buildSwapTransaction: the stored quote's tx, or an error
FourMemeBuildOutcome(m, quote, userAddress, t) ==
    IF quote.quoteId \notin DOMAIN m THEN "quote_expired_or_invalid" ELSE "tx"

\* the transaction it returns: read from the stored quote's tx
FourMemeTx(m, quote) ==
    IF quote.quoteId \in DOMAIN m
    THEN [to |-> "factory", value |-> m[quote.quoteId].quote.amount]
    ELSE NoTx

\* FourMemeProvider.buildSwapTransaction(quote, userAddress)
FourMemeBuildSwapTransaction ==
    /\ prov = "four-meme"
    /\ \E q \in Presentable, w \in Wallets :
         lastBuild' = BuildCall(q, w, fmQuotes, FourMemeBuildOutcome(fmQuotes, q, w, now),
                                FourMemeTx(fmQuotes, q))
    /\ UNCHANGED <<now, ticks, fmQuotes, solQuotes, issued, prov>>
    /\ CacheOnly

\* SolanaProvider.getQuote(params, walletAddress)
SolanaGetQuote ==
    /\ prov = "solana"
    /\ Cardinality(issued) < MaxQuotes
    /\ \E id \in QuoteIds, user \in Wallets :
         LET quote == NewQuote(id, user)
         IN  /\ solQuotes' = MapSet(solQuotes, id,
                                    [quote |-> quote, expiresAt |-> now + SOL_QUOTE_EXPIRY])
             /\ issued' = issued \cup {[quote |-> quote, at |-> now, user |-> user]}
    /\ UNCHANGED <<now, ticks, fmQuotes, prov, lastBuild>>
    /\ CacheOnly

\* SolanaProvider.buildTransferTransaction: its two checks, then the transaction
SolanaBuildOutcome(m, quote, walletAddress, t) ==
    IF quote.quoteId \notin DOMAIN m \/ m[quote.quoteId].expiresAt < t
    THEN "quote_expired_or_invalid"
    ELSE IF quote.fromAddress # walletAddress
    THEN "sender_mismatch"
    ELSE "tx"

\* the transaction it returns: built from the quote object it was handed
SolanaTx(quote) == [to |-> quote.toAddress, value |-> quote.amount]

\* SolanaProvider.buildTransferTransaction(quote, walletAddress)
SolanaBuildTransferTransaction ==
    /\ prov = "solana"
    /\ \E q \in Presentable, w \in Wallets :
         lastBuild' = BuildCall(q, w, solQuotes, SolanaBuildOutcome(solQuotes, q, w, now),
                                SolanaTx(q))
    /\ UNCHANGED <<now, ticks, fmQuotes, solQuotes, issued, prov>>
    /\ CacheOnly

(***************************************************************************)
(* Initial states and specifications.                                      *)
(***************************************************************************)
PipeIdle ==
    /\ tool = "none" /\ plugin = NoPlugin /\ pc = "idle" /\ depth = 0
    /\ args = [network |-> "", fromToken |-> "", toToken |-> "", limitPrice |-> 0,
               provider |-> "none", attempt |-> FALSE, amountKind |-> "string"]
    /\ caller = [before |-> args, now |-> args]
    /\ local = NoLocal /\ caught = NoErr /\ log = <<>> /\ result = NoResult

QuoteIdle ==
    /\ qtool = "none"
    /\ params = [network |-> "", type |-> "input", amount |-> Num(0), decimals |-> 0]
    /\ responses = <<>>
    /\ fan = <<>> /\ logged = <<>> /\ outcome = <<>>

CacheIdle ==
    /\ now = 0 /\ ticks = 0 /\ fmQuotes = EmptyMap /\ solQuotes = EmptyMap
    /\ issued = {} /\ prov = "none" /\ lastBuild = NoBuild

\* no call of the staking-balance tool is running
SbIdle ==
    [pc |-> "idle", network |-> "", address |-> "", providers |-> <<>>, asked |-> <<>>,
     result |-> [status |-> "none", tokenStaking |-> <<>>, errors |-> {}, step |-> ""]]
\* no call of the cancel-limit-orders tool is running
CoIdle ==
    [pc |-> "idle", network |-> "", given |-> FALSE, orderIds |-> <<>>, i |-> 0,
     log |-> <<>>, pending |-> {}, cancelResults |-> <<>>,
     result |-> [status |-> "none", details |-> <<>>]]
\* no transfer quote is being made
SqIdle ==
    [pc |-> "idle", token |-> "", amount |-> AmountStr(FALSE, 0, <<>>),
     balance |-> -1, quoteAmount |-> AmountStr(FALSE, 0, <<>>)]
\* no Agent has been constructed
AgIdle ==
    [tools |-> <<>>, plugins |-> {}, executor |-> [defined |-> FALSE, tools |-> {}],
     inits |-> <<>>, settled |-> {}, once |-> {},
     reg |-> [plugin |-> "", i |-> 0],
     unreg |-> [name |-> "", pc |-> "idle"],
     run |-> [pc |-> "none", expected |-> {}, on |-> {}]]
AuxIdle == sb = SbIdle /\ co = CoIdle /\ sq = SqIdle /\ ag = AgIdle

\* a caller's args: the schema's fields, and _attempt
SwapArgs ==
    [network : Networks, fromToken : FromTokenRefs, toToken : ToTokenRefs,
     limitPrice : {0, 1}, provider : {"none", "P1"}, attempt : {FALSE, TRUE},
     amountKind : {"string", "number"}]
StakeArgs ==
    [network : Networks, fromToken : {"0x5fdf"}, toToken : {""},
     limitPrice : {0}, provider : {"none", "P1", "PX"}, attempt : {FALSE},
     amountKind : {"string"}]

PipeInit ==
    /\ tool \in {"swap", "staking"}
    /\ plugin = FullPlugin
    /\ args \in (IF tool = "swap" THEN SwapArgs ELSE StakeArgs)
    /\ caller = [before |-> args, now |-> args]
    /\ pc = "start" /\ depth = 0
    /\ local = NoLocal /\ caught = NoErr /\ log = <<>> /\ result = NoResult

Init == PipeInit /\ QuoteIdle /\ CacheIdle /\ AuxIdle

Next ==
    \/ SwapValidate \/ SwapGetAddress \/ SwapWrapBuild \/ SwapWrapSend \/ SwapWrapWait
    \/ SwapGetProviderQuote \/ SwapCheckBalance \/ SwapBuild \/ SwapCheckAllowance
    \/ SwapApproveBuild \/ SwapApproveSend \/ SwapApproveWait
    \/ SwapExecute \/ SwapExecuteWait \/ SwapInvalidate \/ SwapReturn
    \/ SwapCatch \/ SwapAttemptTokenAddressFix
    \/ StakeValidate \/ StakeGetProviderQuote \/ StakeFindBestQuote
    \/ StakeCheckBalance \/ StakeBuild
    \/ StakeCheckAllowance \/ StakeApproveBuild \/ StakeApproveSend \/ StakeApproveWait
    \/ StakeExecute \/ StakeExecuteWait \/ StakeCatch

Spec == Init /\ [][Next]_vars

\* the side of the quote the providers price, and the requested amount
PricedChoices ==
    {Priced(Num(99), 0), Priced(Num(100), 0), Priced(Num(101), 0), Priced(Num(10), 1),
     Priced(<<2^26, 0>>, 0), Priced(<<2^26, 1>>, 0)}
ResponseChoices(i) == {Fail(i)} \cup PricedChoices

QuoteInit ==
    /\ qtool \in {"swap", "staking"}
    /\ params \in [network : {"bnb", "solana", "base"},
                   type : IF qtool = "swap" THEN {"input", "output"} ELSE {"stake"},
                   amount : {Num(100)}, decimals : {0}]
    /\ responses \in {rs \in [Indices(registry) -> UNION {ResponseChoices(i) :
                                                          i \in Indices(registry)}] :
                         \A i \in Indices(registry) : rs[i] \in ResponseChoices(i)}
    /\ fan = <<IdleFan>> /\ logged = <<{}>> /\ outcome = <<NoOutcome>>

InitQuote == PipeIdle /\ QuoteInit /\ CacheIdle /\ AuxIdle

NextQuote ==
    \/ \E r \in DOMAIN fan : FanOutStart(r)
    \/ \E r \in DOMAIN fan : \E k \in Indices(registry) : ProviderSettles(r, k)
    \/ \E r \in DOMAIN fan : FanOutJoin(r)

SpecQuote == InitQuote /\ [][NextQuote]_vars

CacheInit ==
    /\ now = 0 /\ ticks = 0 /\ fmQuotes = EmptyMap /\ solQuotes = EmptyMap
    /\ issued = {} /\ prov \in {"four-meme", "solana"} /\ lastBuild = NoBuild

InitCache == PipeIdle /\ QuoteIdle /\ CacheInit /\ AuxIdle

NextCache ==
    \/ Tick
    \/ FourMemeGetQuote \/ FourMemeBuildSwapTransaction
    \/ SolanaGetQuote \/ SolanaBuildTransferTransaction

SpecCache == InitCache /\ [][NextCache]_vars

\* two findBestQuote calls with the same registry, params and provider answers
RunsInit ==
    /\ qtool \in {"swap", "staking"}
    /\ params \in [network : {"bnb"},
                   type : IF qtool = "swap" THEN {"input", "output"} ELSE {"stake"},
                   amount : {Num(100)}, decimals : {0}]
    /\ responses \in {rs \in [Indices(registry) ->
                                 UNION {{Fail(i), Priced(Num(99), 0), Priced(Num(100), 0)} :
                                        i \in Indices(registry)}] :
                         \A i \in Indices(registry) : ~rs[i].ok => rs[i] = Fail(i)}
    /\ fan = <<IdleFan, IdleFan>> /\ logged = <<{}, {}>>
    /\ outcome = <<NoOutcome, NoOutcome>>

InitRuns == PipeIdle /\ RunsInit /\ CacheIdle /\ AuxIdle

SpecRuns == InitRuns /\ [][NextQuote]_vars

(***************************************************************************)
(* Properties.                                                             *)
(***************************************************************************)
IsEv(e, op, ev) == e.op = op /\ e.ev = ev
EventsOf(op, ev) == {i \in Indices(log) : IsEv(log[i], op, ev)}
Eligible == {i \in Indices(registry) : params.network \in registry[i].networks}
Succeeded == {i \in Eligible : responses[i].ok}
Joined(r) == fan[r].st = "joined" /\ Eligible # {}

\* C1: whenever an approval transaction was sent, the primary (swap / staking)
\* transaction is submitted only after the approval's wait() has resolved with
\* a confirmation: no primary submission while an approval is sent and unconfirmed.
C1_ApprovalConfirmedBeforePrimary ==
    \A j \in EventsOf("primary", "sent") :
        \A i \in EventsOf("approve", "sent") :
            i < j => \E k \in EventsOf("approve", "confirmed") : i < k /\ k < j

C1_Witness ==
    /\ EventsOf("approve", "sent") # {}
    /\ EventsOf("approve", "confirmed") # {}
    /\ EventsOf("primary", "sent") # {}

\* C2: in a run on a network with an allowance model, once the primary
\* transaction is sent, exactly one approval was sent before it if checkAllowance
\* answered less than the required amount, and none if it answered at least that.
C2_ApprovalCount ==
    \A j \in EventsOf("primary", "sent") :
        (tool = "staking" \/ HasAllowanceModel(args.network)) =>
            /\ local.allowance >= 0 /\ local.requiredAmount >= 0
            /\ Cardinality({i \in EventsOf("approve", "sent") : i < j})
                 = (IF local.allowance < local.requiredAmount THEN 1 ELSE 0)
            /\ Cardinality(EventsOf("approve", "sent"))
                 = (IF local.allowance < local.requiredAmount THEN 1 ELSE 0)

C2_Witness ==
    /\ EventsOf("primary", "sent") # {}
    /\ local.allowance = local.requiredAmount
    /\ local.requiredAmount > 0
    /\ EventsOf("approve", "sent") = {}

\* C3: a failed step ends the attempt: after a throw, or a failed approval or
\* primary confirmation, nothing more is sent in that attempt; and when the
\* balance check, or building, sending or confirming the approval fails, that
\* attempt sends no primary transaction and the call returns a result whose
\* status is error.
IsFailure(e) == e.op = "throw" \/ e.ev = "failed"
IsSend(e) == e.op \in {"wrap", "approve", "primary"} /\ e.ev = "sent"
\* a quote asked of the preferred provider, or of all of them by findBestQuote
IsQuoteRequest(e) == e.op \in {"quote", "fanout"}
PrePrimarySteps == {"balance", "build", "allowance", "approve_build", "approve_send",
                    "approve_wait"}
C3_FailedStepStopsAttempt ==
    /\ \A i \in Indices(log) : \A j \in Indices(log) :
         (i < j /\ IsFailure(log[i]) /\ log[j].depth = log[i].depth) => ~IsSend(log[j])
    /\ \A i \in Indices(log) :
         (log[i].op = "throw" /\ log[i].ev \in PrePrimarySteps) =>
             /\ \A j \in EventsOf("primary", "sent") : log[j].depth # log[i].depth
             /\ (pc \in {"done", "rejected"} /\ log[i].depth = depth) =>
                   (pc = "done" /\ result.status = "error")

C3_Witness ==
    /\ pc = "done" /\ result.status = "error"
    /\ EventsOf("approve", "failed") # {}
    /\ EventsOf("primary", "sent") = {}

\* C4: the fan-out waits for every provider eligible for the network, and when
\* at least one of them answered a quote the call does not fail: the winner is
\* a provider of the network whose getQuote succeeded.
C4_FanOutIsolation ==
    \A r \in DOMAIN fan :
        Joined(r) =>
            /\ {fan[r].providers[k] : k \in Indices(fan[r].order)} = Eligible
            /\ Succeeded # {} =>
                 outcome[r].kind = "ok" /\ outcome[r].provider \in Succeeded

C4_Witness ==
    /\ Joined(1)
    /\ Cardinality(Eligible) = 3
    /\ Cardinality(Succeeded) = 2
    /\ outcome[1].kind = "ok"
    /\ fan[1].order[1] \in Eligible \ Succeeded    \* the rejection came first

\* C5 as stated: when every eligible provider's call fails, the error raised
\* includes the set of per-provider failure reasons.
C5_ErrorCarriesReasons ==
    \A r \in DOMAIN fan :
        (Joined(r) /\ Succeeded = {}) =>
            /\ outcome[r].kind = "error"
            /\ outcome[r].reasons = {responses[i].reason : i \in Eligible}

\* C5 amended: when every eligible provider's call fails, findBestQuote throws
\* the error "No valid quotes found", which carries no failure reasons; each
\* provider's reason was passed to the logger only.
C5_ErrorWithoutReasons ==
    \A r \in DOMAIN fan :
        (Joined(r) /\ Succeeded = {}) =>
            /\ outcome[r].kind = "error"
            /\ outcome[r].message = "No valid quotes found"
            /\ outcome[r].reasons = {}
            /\ logged[r] = {[provider |-> i, reason |-> responses[i].reason] : i \in Eligible}

C5_Witness ==
    /\ Joined(1) /\ Cardinality(Eligible) = 3 /\ Succeeded = {}
    /\ outcome[1].kind = "error"

\* the exact base-unit amount of the side a provider priced
PricedUnits(i) == Normalized(responses[i].amount, responses[i].decimals)

\* C6: for amountType = input, the selected quote's output amount in base
\* units is at least that of every other successful quote.
C6_InputPicksLargestOutput ==
    \A r \in DOMAIN fan :
        (Joined(r) /\ qtool = "swap" /\ params.type = "input" /\ outcome[r].kind = "ok") =>
            \A i \in Succeeded : ~NumLess(PricedUnits(outcome[r].provider), PricedUnits(i))

\* C7: for amountType = output, the selected quote's input amount in base
\* units is at most that of every other successful quote.
C7_OutputPicksSmallestInput ==
    \A r \in DOMAIN fan :
        (Joined(r) /\ qtool = "swap" /\ params.type = "output" /\ outcome[r].kind = "ok") =>
            \A i \in Succeeded : ~NumLess(PricedUnits(i), PricedUnits(outcome[r].provider))

\* C8: when all successful quotes are equally good, the one of the provider that
\* comes first in registration order is returned.
C8_TieKeepsFirst ==
    \A r \in DOMAIN fan :
        (/\ Joined(r) /\ outcome[r].kind = "ok"
         /\ \A i \in Succeeded : \A j \in Succeeded : PricedUnits(i) = PricedUnits(j)) =>
            \A i \in Succeeded : outcome[r].provider <= i

\* C9: with the registration order and every provider's answer fixed, two
\* findBestQuote calls return the same result whatever the order in which
\* their provider calls complete.
C9_SameWinnerInEveryRun ==
    \A r1 \in DOMAIN fan : \A r2 \in DOMAIN fan :
        (fan[r1].st = "joined" /\ fan[r2].st = "joined") => outcome[r1] = outcome[r2]

C9_Witness ==
    /\ Len(fan) = 2
    /\ fan[1].st = "joined" /\ fan[2].st = "joined"
    /\ fan[1].order # fan[2].order
    /\ fan[1].order[1] # fan[2].order[1]
    /\ Cardinality(Succeeded) = 3
    /\ \A i \in Succeeded : \A j \in Succeeded : PricedUnits(i) = PricedUnits(j)
    /\ outcome[1].kind = "ok"

\* C10: for every provider, a build attempt made later than the stored quote's
\* expiresAt fails with the quote-expired-or-invalid error and yields no transaction.
C10_ExpiredQuoteRejected ==
    (lastBuild.outcome # "none" /\ lastBuild.stored /\ lastBuild.at > lastBuild.expiresAt)
        => lastBuild.outcome = "quote_expired_or_invalid"

\* C11: a build attempt made at the very instant now = expiresAt of the stored
\* quote already fails: the quote is consumable only while now < expiresAt.
C11_NotConsumableAtExpiry ==
    (lastBuild.outcome # "none" /\ lastBuild.stored /\ lastBuild.at = lastBuild.expiresAt)
        => lastBuild.outcome # "tx"

\* C12: for every provider, a build call for a stored, unexpired quote made with
\* a wallet other than the one the quote was issued to fails with the
\* sender-mismatch error.
C12_OtherWalletRejected ==
    \A i \in issued :
        (/\ lastBuild.outcome # "none" /\ lastBuild.quote = i.quote
         /\ lastBuild.stored /\ lastBuild.cached = i.quote
         /\ lastBuild.at < lastBuild.expiresAt
         /\ lastBuild.wallet # i.user
         /\ \A j \in issued : j.quote = i.quote => j.user = i.user)
            => lastBuild.outcome = "sender_mismatch"

\* C13: a build call whose quote object carries the id of a stored, unexpired
\* quote but is not that stored quote is rejected with quote-expired-or-invalid.
C13_OnlyExactQuoteAccepted ==
    (/\ lastBuild.outcome # "none" /\ lastBuild.stored
     /\ lastBuild.at < lastBuild.expiresAt
     /\ lastBuild.quote # lastBuild.cached)
        => lastBuild.outcome = "quote_expired_or_invalid"

\* the store of the provider under test
Quotes == IF prov = "four-meme" THEN fmQuotes ELSE solQuotes

\* C14: a quote a provider returned (and findBestQuote may hand back as the
\* winner) is in that provider's store under its id, with expiry issue time plus
\* the TTL, from its issuance until that expiry.
C14_IssuedQuoteStaysStored ==
    \A i \in issued :
        now < i.at + QuoteExpiry(prov) =>
            /\ i.quote.quoteId \in DOMAIN Quotes
            /\ Quotes[i.quote.quoteId] =
                   [quote |-> i.quote, expiresAt |-> i.at + QuoteExpiry(prov)]

\* C15: no two quotes issued by a provider share an id.
C15_QuoteIdsNeverReused ==
    \A i \in issued : \A j \in issued : i # j => i.quote.quoteId # j.quote.quoteId

\* events of the log at positions before j, in the func call of depth d
Before(j, d, op, ev) ==
    \E i \in Indices(log) : i < j /\ log[i].depth = d /\ IsEv(log[i], op, ev)
IsBuildCall(e) == IsEv(e, "build", "returned") \/ IsEv(e, "throw", "build")

\* C16 (as stated): provider.checkBalance is called only after the provider's
\* build call has returned a transaction in the same run.
C16_BuildBeforeBalanceCheck ==
    \A j \in Indices(log) :
        log[j].op = "balance" => Before(j, log[j].depth, "build", "returned")

\* C16 (amended): the provider's build call is made only after checkBalance
\* has answered isValid in the same run, and no balance check follows a build.
C16_BalanceCheckBeforeBuild ==
    \A j \in Indices(log) :
        /\ IsBuildCall(log[j]) => Before(j, log[j].depth, "balance", "valid")
        /\ log[j].op = "balance" => ~Before(j, log[j].depth, "build", "returned")

C16_Witness ==
    /\ pc = "done" /\ result.status = "success"
    /\ EventsOf("build", "returned") # {} /\ EventsOf("balance", "valid") # {}

\* C17: when checkBalance answers isValid = false with a message, the operation
\* ends with an error whose message is the provider's message.
C17_BalanceMessageReported ==
    (pc = "done" /\ ~local.balanceCheck.isValid /\ local.balanceCheck.message # "")
        => (result.status = "error" /\ result.message = local.balanceCheck.message)

\* the swap asks for a limit price with the native asset as source
WrapRequested == tool = "swap" /\ args.limitPrice # 0 /\ local.fromToken = NATIVE
WrapFailed(e) == IsEv(e, "throw", "wrap") \/ IsEv(e, "wrap", "failed")

\* C18: for a limit-price swap from the native asset, a quote is requested only
\* after the wrap was sent and confirmed, and for the wrapped asset as source;
\* once the wrap failed, that attempt requests no quote, sends no approval or
\* primary transaction and ends with an error.
C18_WrapBeforeQuote ==
    WrapRequested =>
        /\ \A j \in Indices(log) :
             (IsQuoteRequest(log[j]) /\ log[j].depth = depth) =>
                 /\ log[j].ev = WBNB
                 /\ Before(j, depth, "wrap", "sent")
                 /\ Before(j, depth, "wrap", "confirmed")
        /\ (\E i \in Indices(log) : log[i].depth = depth /\ WrapFailed(log[i])) =>
             /\ \A j \in Indices(log) :
                  log[j].depth = depth =>
                      /\ ~IsQuoteRequest(log[j])
                      /\ ~IsEv(log[j], "approve", "sent") /\ ~IsEv(log[j], "primary", "sent")
             /\ pc \in {"catch", "fix", "done"}
             /\ pc = "done" => result.status = "error"

C18_Witness ==
    /\ WrapRequested /\ pc = "done" /\ result.status = "success"
    /\ EventsOf("wrap", "confirmed") # {}
    /\ EventsOf("quote", WBNB) # {}
    /\ EventsOf("primary", "confirmed") # {}

\* C19: a swap on solana or hyperliquid never calls checkAllowance and never
\* builds or sends an approval transaction.
C19_NoAllowanceStepWithoutSpenderModel ==
    (tool = "swap" /\ args.network \in {"solana", "hyperliquid"}) =>
        \A i \in Indices(log) :
            /\ log[i].op \notin {"allowance", "approve"}
            /\ log[i].op = "throw" =>
                 log[i].ev \notin {"allowance", "approve_build", "approve_send", "approve_wait"}

C19_Witness ==
    /\ tool = "swap" /\ args.network = "solana"
    /\ pc = "done" /\ result.status = "success"
    /\ EventsOf("build", "returned") # {} /\ EventsOf("primary", "confirmed") # {}

\* C20: when invalidateBalanceCache throws after the primary transaction, nothing
\* is thrown on: the call goes on to return status success with the
\* transaction's hash, and there is no retry.
C20_InvalidationFailureIgnored ==
    \A i \in EventsOf("invalidate", "threw") :
        /\ i = Len(log) /\ log[i].depth = depth
        /\ pc \in {"return", "done"}
        /\ pc = "done" => (result.status = "success" /\ result.hash = local.hash)

C20_Witness ==
    /\ pc = "done" /\ EventsOf("invalidate", "threw") # {}
    /\ EventsOf("primary", "confirmed") # {}
    /\ result.status = "success" /\ result.hash = "0xhash"

\* C21: a success result is returned only after the primary transaction was
\* sent and its confirmation observed in that call, and it carries the selected
\* provider and a defined transaction hash.
C21_SuccessCarriesConfirmedHash ==
    (pc = "done" /\ result.status = "success") =>
        /\ \E j \in EventsOf("primary", "confirmed") :
             log[j].depth = depth /\ Before(j, depth, "primary", "sent")
        /\ result.provider = local.provider
        /\ result.hash # ""

\* the pipeline with its collaborators answering: every awaited call settles
SpecLive == Init /\ [][Next]_vars /\ WF_vars(Next)

\* C22: one swap operation starts at most one nested func call, that call runs
\* with _attempt set, and the operation ends (its promise settles) however
\* often the cause recurs.
C22_AtMostOneRetry ==
    /\ [](depth <= 1 /\ (depth = 1 => args.attempt))
    /\ <>(pc \in {"done", "rejected"})

C22_Witness ==
    /\ tool = "swap" /\ depth = 1 /\ pc = "done" /\ result.status = "error"
    /\ \E i \in EventsOf("throw", "token_validation") : log[i].depth = 1

\* the reference the first attempt's token validation rejects, and whether the
\* network's table knows it as a symbol
FromRejected ==
    ~validateTokenAddress(caller.before.fromToken, caller.before.network).isValid
Offending == IF FromRejected THEN caller.before.fromToken ELSE caller.before.toToken
\* the addresses whose symbol equals the reference when case is ignored
Resolved ==
    {t.address : t \in {u \in defaultTokens(caller.before.network) :
                            toLowerCase(u.symbol) = toLowerCase(Offending)}}
RetryDue ==
    /\ tool = "swap" /\ ~caller.before.attempt
    /\ \E i \in EventsOf("throw", "token_validation") : log[i].depth = 0
    /\ Resolved # {}

\* C23: when the first attempt's token validation fails on a reference that is,
\* ignoring case, a symbol of the network's table and _attempt is not set, the
\* operation does not end in the first call: one nested call runs with
\* _attempt set and the reference replaced by the table's address (the other
\* reference as submitted), and the result is that call's.
C23_RetryWithResolvedAddress ==
    RetryDue =>
        /\ depth <= 1
        /\ pc = "done" => depth = 1
        /\ depth = 1 =>
             /\ args.attempt /\ args.network = caller.before.network
             /\ IF FromRejected
                THEN args.fromToken \in Resolved /\ args.toToken = caller.before.toToken
                ELSE args.toToken \in Resolved /\ args.fromToken = caller.before.fromToken

C23_Witness ==
    /\ RetryDue /\ caller.before.fromToken = "bink"
    /\ depth = 1 /\ pc = "done" /\ result.status = "success"
    /\ args.fromToken = "0x5fdf"

\* C24 (as stated): a token error that is caught and not retried is reported
\* unchanged.
C24_OriginalErrorSurfaced ==
    (tool = "swap" /\ pc = "done" /\ caught.isObj /\ isTokenValidationError(caught))
        => result = handleError(caught)

\* C24 (amended): with _attempt already set the caught error is reported
\* unchanged; when the reference matches no symbol of the table, a new
\* token-not-found error is reported in its place.
C24_GivesUpWithNewError ==
    (tool = "swap" /\ pc = "done" /\ caught.isObj /\ isTokenValidationError(caught))
        => IF args.attempt
           THEN result = handleError(caught)
           ELSE /\ result = handleError(FixGivesUp(args.network))
                /\ result.message # caught.msg
                /\ depth = 0

C24_Witness ==
    /\ tool = "swap" /\ pc = "done" /\ ~args.attempt
    /\ caught = createError("token_not_found", "invalid_from", "fromToken")
    /\ result.message = "could_not_find_address"

\* the steps inside getQuote: validation and quoting
QuotingSteps == {"network_validation", "token_validation", "wallet", "wrap", "quote", "balance"}

\* C25: a nested (retry) call is only ever started by an error thrown during
\* validation / quoting, never by one thrown by the build, the allowance check,
\* the approval or the execution.
C25_RetryOnlyFromQuotingStage ==
    depth = 1 =>
        \A i \in Indices(log) :
            (log[i].op = "throw" /\ log[i].depth = 0) => log[i].ev \in QuotingSteps

\* number of transactions of one kind handed to the wallet
Sent(op) == Cardinality(EventsOf(op, "sent"))

\* C28: one swap operation, its retry included, sends at most one wrap, one
\* approval and one primary transaction, and starts no retry once a
\* transaction was sent.
C28_EachTransactionAtMostOnce ==
    tool = "swap" =>
        /\ Sent("wrap") <= 1 /\ Sent("approve") <= 1 /\ Sent("primary") <= 1
        /\ depth = 1 => \A i \in Indices(log) : log[i].depth = 0 => ~IsSend(log[i])

\* C26: an operation never modifies the params object the caller submitted:
\* its fields are the same during and after the call as at submission.
C26_CallerParamsUntouched == caller.now = caller.before

\* C27: the tool function never rejects: every call ends with a record whose
\* status is success or error, whatever a collaborator rejected with.
C27_FuncAlwaysResolves ==
    /\ pc # "rejected"
    /\ pc = "done" => result.status \in {"success", "error"}

(***************************************************************************)
(* Setting the swap tool up: construction, registerProvider, createTool,   *)
(* and then one call of its func.                                          *)
(***************************************************************************)
\* registerProvider(provider): the registry gets the provider, and
\* this.supportedNetworks every network of provider.getSupportedNetworks()
registerProvider(provider) ==
    /\ tool = "swap" /\ pc = "new"
    /\ provider \notin plugin.providers
    /\ plugin' = [plugin EXCEPT
                    !.providers = @ \cup {provider},
                    !.supportedNetworks = @ \cup ProviderNetworks(provider)]
    /\ UNCHANGED <<tool, pc, depth, args, caller, local, caught, log, result>>
    /\ PipeOnly

\* createTool() and the call of func: getSchema throws without a provider or
\* without a supported network, and its enum admits registered providers only
createTool ==
    /\ tool = "swap" /\ pc = "new"
    /\ plugin.providers # {}
    /\ getSupportedNetworks # {}
    /\ args.provider \in plugin.providers \cup {"none"}
    /\ pc' = "start"
    /\ UNCHANGED <<tool, plugin, depth, args, caller, local, caught, log, result>>
    /\ PipeOnly

\* the calls the set-up specification makes
SetupArgs ==
    [network : Networks, fromToken : {NATIVE, "0x55d3"}, toToken : {"0x55d3", "Usdt"},
     limitPrice : {0, 1}, provider : {"none", "P1", "P2"}, attempt : {FALSE},
     amountKind : {"string"}]

SetupInit ==
    /\ tool = "swap"
    /\ \E agentNetworks \in {{"bnb", "solana", "hyperliquid"}, {"bnb", "solana"}} :
       \E config \in {{}, {"solana"}} :
           plugin = NewPlugin(agentNetworks, config)
    /\ args \in SetupArgs
    /\ caller = [before |-> args, now |-> args]
    /\ pc = "new" /\ depth = 0
    /\ local = NoLocal /\ caught = NoErr /\ log = <<>> /\ result = NoResult

InitSetup == SetupInit /\ QuoteIdle /\ CacheIdle /\ AuxIdle

NextSetup ==
    \/ \E provider \in {"P1", "P2"} : registerProvider(provider)
    \/ createTool
    \/ SwapValidate \/ SwapGetAddress \/ SwapWrapBuild \/ SwapWrapSend \/ SwapWrapWait
    \/ SwapGetProviderQuote \/ SwapCheckBalance \/ SwapBuild \/ SwapCheckAllowance
    \/ SwapApproveBuild \/ SwapApproveSend \/ SwapApproveWait
    \/ SwapExecute \/ SwapExecuteWait \/ SwapInvalidate \/ SwapReturn
    \/ SwapCatch \/ SwapAttemptTokenAddressFix

SpecSetup == InitSetup /\ [][NextSetup]_vars

\* the networks of the registered providers
RegisteredNetworks == UNION {ProviderNetworks(p) : p \in plugin.providers}
\* the running func call is past getQuote STEP 1
PastNetworkValidation ==
    tool = "swap" /\ pc \notin {"idle", "new", "start"}
\* the call failed at STEP 1: no wallet address was asked for, no quote, no
\* transaction, and the only throw is the network-validation error
RejectedAtNetworkValidation ==
    /\ local.userAddress = ""
    /\ log = <<Event("throw", "network_validation", 0)>>
    /\ pc \in {"catch", "done"}
    /\ pc = "done" => (result.status = "error" /\ result.step = "network_validation")

PreferredQuoteFailed(i) ==
    /\ i > 1 /\ IsEv(log[i], "throw", "quote")
    /\ log[i - 1].op = "quote" /\ log[i - 1].depth = log[i].depth

\* C30: a swap that names a provider asks only that provider for a quote: no
\* fan-out runs and no other provider is selected; when the provider does not
\* support the network no quote is requested at all and the error is a
\* provider-validation error; when its getQuote fails the operation ends with
\* an error and nothing further is asked or sent.  A swap that names no
\* provider asks through findBestQuote only.
C30_PreferredProviderOnly ==
    tool = "swap" =>
        /\ args.provider # "none" =>
             /\ \A i \in Indices(log) : log[i].op # "fanout"
             /\ local.provider \in {"none", args.provider}
             /\ (pc \notin {"idle", "new", "start"}
                   /\ args.network \notin ProviderNetworks(args.provider)) =>
                  /\ \A i \in Indices(log) : ~IsQuoteRequest(log[i])
                  /\ (\E i \in Indices(log) : IsEv(log[i], "throw", "quote")) =>
                       /\ pc \in {"catch", "done"}
                       /\ pc = "done" => (result.status = "error"
                                            /\ result.step = "provider_validation")
             /\ \A i \in Indices(log) :
                  PreferredQuoteFailed(i) =>
                      /\ i = Len(log)
                      /\ pc \in {"catch", "done"}
                      /\ pc = "done" => result.status = "error"
        /\ args.provider = "none" => \A i \in Indices(log) : log[i].op # "quote"

C30_Witness ==
    /\ tool = "swap" /\ pc = "done" /\ args.provider = "P1"
    /\ "P2" \in plugin.providers /\ args.network \in ProviderNetworks("P2")
    /\ Len(log) > 1 /\ PreferredQuoteFailed(Len(log))
    /\ result.status = "error"

\* the preferred staking provider is not registered or not on the network
PreferredUnusable ==
    args.provider \notin plugin.providers
        \/ args.network \notin ProviderNetworks(args.provider)

\* C31: a staking call that names a provider falls back to findBestQuote when
\* the provider is unknown, not on the network or fails to quote: the fallback
\* is followed by the fan-out, an unusable provider is never asked, and the
\* call fails at the quoting stage only after a fan-out without a quote; the
\* provider selected by the fallback is a registered provider of the network.
C31_StakingFallsBackToFanOut ==
    (tool = "staking" /\ args.provider # "none") =>
        /\ \A i \in Indices(log) :
             log[i].op = "fallback" =>
                 IF i = Len(log) THEN pc = "fanout" ELSE log[i + 1].op = "fanout"
        /\ \A i \in Indices(log) :
             log[i].op = "quote" =>
                 /\ ~PreferredUnusable
                 /\ i = Len(log) \/ ~IsEv(log[i + 1], "throw", "quote")
        /\ (PreferredUnusable /\ pc \notin {"start", "quote"}) =>
             (\E i \in Indices(log) : log[i] = Event("fallback", "not_asked", 0)
                                       \/ IsEv(log[i], "throw", "wallet")
                                       \/ IsEv(log[i], "throw", "network_validation"))
        /\ \A i \in Indices(log) :
             IsEv(log[i], "throw", "quote") => (i > 1 /\ log[i - 1].op = "fanout")
        /\ (\E i \in Indices(log) : log[i].op = "fallback") =>
             (local.provider # "none" =>
                 /\ local.provider \in plugin.providers
                 /\ args.network \in ProviderNetworks(local.provider))

C31_Witness ==
    /\ tool = "staking" /\ args.provider = "P1" /\ pc = "done"
    /\ result.status = "success" /\ result.provider = "P2"
    /\ \E i \in Indices(log) : log[i] = Event("fallback", "quote_failed", 0)

\* a fresh swap whose two token references both fail the validation
BothInvalid ==
    /\ tool = "swap" /\ ~caller.before.attempt
    /\ caller.before.network \in getSupportedNetworks
    /\ caller.before.network # "hyperliquid"
    /\ ~validateTokenAddress(caller.before.fromToken, caller.before.network).isValid
    /\ ~validateTokenAddress(caller.before.toToken, caller.before.network).isValid

\* C32: when both token references of a swap are invalid, only the source is
\* ever corrected: the first attempt fails on the source; if the table knows
\* it, the one retry runs with _attempt set and the source's address, fails on
\* the destination, and that error is the result; no quote is requested and no
\* transaction sent, and the operation ends with status error.
C32_OnlySourceCorrected ==
    BothInvalid =>
        /\ depth <= 1
        /\ args.toToken = caller.before.toToken
        /\ \A i \in Indices(log) : IsEv(log[i], "throw", "token_validation")
        /\ Len(log) <= depth + 1
        /\ (pc \notin {"start"} /\ depth = 0) => caught.tokenType = "fromToken"
        /\ depth = 1 =>
             /\ args.attempt /\ args.fromToken \in Resolved
             /\ pc # "start" => (caught.tokenType = "toToken" /\ pc \in {"catch", "done"})
        /\ pc = "done" =>
             /\ result.status = "error"
             /\ Resolved # {} => (depth = 1 /\ result = handleError(caught))

C32_Witness ==
    /\ BothInvalid /\ caller.before.fromToken = "bink" /\ caller.before.toToken = "Usdt"
    /\ depth = 1 /\ pc = "done" /\ args.fromToken = "0x5fdf" /\ args.toToken = "Usdt"
    /\ caught.tokenType = "toToken" /\ result.status = "error"
    /\ Len(log) = 2

(***************************************************************************)
(* GetStakingBalanceTool.createTool().func                                 *)
(***************************************************************************)
\* the providers of the staking-balance tool's registry, in registration
\* order, and registry.getProvidersByNetwork(network)
SbProviders(network) ==
    IF network = "bnb" THEN <<"S1", "S2", "S3">>
    ELSE <<>>
\* getSupportedNetworks() of the tool: ethereum was given in
\* config.supportedNetworks and has no provider, solana is not an agent network
SbSupportedNetworks == {"bnb", "ethereum"}

\* StakingBalance.balance as the provider spells it, and the number it denotes
BalanceStrings == {"0", "0.0", "0.00", "1.5"}
BalanceValue(balance) == IF balance = "1.5" THEN 15 ELSE 0
\* a StakingBalance: the token and its balance string
StakingBalance(token, balance) == [token |-> token, balance |-> balance]

\* what provider.getAllStakingBalances(address) settles with: a rejection, or
\* { address, tokens }, tokens possibly undefined
Rejected == [ok |-> FALSE, defined |-> FALSE, tokens |-> <<>>]
Balances(tokens) == [ok |-> TRUE, defined |-> TRUE, tokens |-> tokens]
NoTokensField == [ok |-> TRUE, defined |-> FALSE, tokens |-> <<>>]
SbAnswers(provider) ==
    {Rejected, NoTokensField, Balances(<<>>)}
        \cup {Balances(<<StakingBalance(provider, b)>>) : b \in BalanceStrings}
        \cup {Balances(<<StakingBalance(provider, "1.5"), StakingBalance("other", "0")>>)}

\* the filter of the combine loop: token.balance !== '0.0' && token.balance !== '0'
KeepToken(token) == token.balance # "0.0" /\ token.balance # "0"

RECURSIVE FilterTokens(_)
FilterTokens(tokens) ==
    IF tokens = <<>> THEN <<>>
    ELSE (IF KeepToken(Head(tokens)) THEN <<Head(tokens)>> ELSE <<>>)
         \o FilterTokens(Tail(tokens))

\* combinedTokens: the kept tokens of allStakingBalances, in query order
RECURSIVE CombinedTokens(_)
CombinedTokens(asked) ==
    IF asked = <<>> THEN <<>>
    ELSE (IF Head(asked).answer.ok /\ Head(asked).answer.defined
          THEN FilterTokens(Head(asked).answer.tokens) ELSE <<>>)
         \o CombinedTokens(Tail(asked))

\* the keys of errors: the providers whose call rejected
SbErrors(asked) == {asked[i].provider : i \in {j \in DOMAIN asked : ~asked[j].answer.ok}}

SbResult(status, tokenStaking, errors, step) ==
    [status |-> status, tokenStaking |-> tokenStaking, errors |-> errors, step |-> step]

\* the three returns after the provider loop
SbReturn(asked) ==
    LET combinedTokens == CombinedTokens(asked)
        errors == SbErrors(asked)
    IN  IF combinedTokens = <<>>
        THEN IF errors # {} THEN SbResult("error", <<>>, errors, "")
             ELSE SbResult("success", <<>>, {}, "")
        ELSE SbResult("success", combinedTokens, errors, "")

\* STEP 3: the providers of the network, or the PROVIDER_AVAILABILITY error
\* which func's catch hands to handleError
SbCheckProviders(address) ==
    LET providers == SbProviders(sb.network)
    IN  IF providers = <<>>
        THEN sb' = [sb EXCEPT !.address = address, !.pc = "done",
                       !.result = SbResult("error", <<>>, {}, "provider_availability")]
        ELSE sb' = [sb EXCEPT !.address = address, !.providers = providers,
                              !.pc = "query"]

\* STEP 1, and STEP 2 up to the await of wallet.getAddress
SbValidate ==
    /\ sb.pc = "start"
    /\ IF sb.network \notin SbSupportedNetworks
       THEN sb' = [sb EXCEPT !.pc = "done",
                      !.result = SbResult("error", <<>>, {}, "network_validation")]
       ELSE IF sb.address = ""
       THEN sb' = [sb EXCEPT !.pc = "address"]
       ELSE SbCheckProviders(sb.address)
    /\ UNCHANGED <<pipeVars, quoteVars, cacheVars, co, sq, ag>>

\* STEP 2: await this.agent.getWallet().getAddress(network), then STEP 3
SbGetAddress ==
    /\ sb.pc = "address"
    /\ \/ SbCheckProviders("0xagent")
       \/ sb' = [sb EXCEPT !.pc = "done",
                    !.result = SbResult("error", <<>>, {}, "wallet")]
    /\ UNCHANGED <<pipeVars, quoteVars, cacheVars, co, sq, ag>>

\* STEP 4: one turn of the provider loop, await provider.getAllStakingBalances;
\* after the last provider, the combine loop and the return
SbQueryProvider ==
    /\ sb.pc = "query"
    /\ LET provider == sb.providers[Len(sb.asked) + 1]
       IN  \E answer \in SbAnswers(provider) :
             LET asked == Append(sb.asked, [provider |-> provider, answer |-> answer])
             IN  IF Len(asked) < Len(sb.providers)
                 THEN sb' = [sb EXCEPT !.asked = asked]
                 ELSE sb' = [sb EXCEPT !.asked = asked, !.pc = "done",
                                       !.result = SbReturn(asked)]
    /\ UNCHANGED <<pipeVars, quoteVars, cacheVars, co, sq, ag>>

SbInit ==
    \E network \in {"bnb", "solana", "ethereum"} : \E address \in {"", "0xabc"} :
        sb = [SbIdle EXCEPT !.pc = "start", !.network = network, !.address = address]

InitBalance == PipeIdle /\ QuoteIdle /\ CacheIdle /\ SbInit /\ co = CoIdle /\ sq = SqIdle /\ ag = AgIdle
NextBalance == SbValidate \/ SbGetAddress \/ SbQueryProvider
SpecBalance == InitBalance /\ [][NextBalance]_vars

\* the tokens of the successful answers whose balance is not zero
RECURSIVE NonZeroTokens(_)
NonZeroTokens(asked) ==
    IF asked = <<>> THEN <<>>
    ELSE LET tokens == Head(asked).answer.tokens
         IN  SelectSeq(tokens, LAMBDA t : BalanceValue(t.balance) # 0)
                 \o NonZeroTokens(Tail(asked))

\* C33: the staking-balance query asks every provider of the network, in
\* order, whatever the earlier ones answered; its result is success with the
\* non-zero-balance tokens of the successful providers (and the failed
\* providers' errors) when there is such a token, error when there is none
\* and a provider failed, success with an empty list otherwise.
C33_BalanceQueryResult ==
    (sb.pc = "done" /\ sb.result.step = "") =>
        /\ Len(sb.asked) = Len(sb.providers)
        /\ \A i \in DOMAIN sb.asked : sb.asked[i].provider = sb.providers[i]
        /\ IF NonZeroTokens(sb.asked) # <<>>
           THEN /\ sb.result.status = "success"
                /\ sb.result.tokenStaking = NonZeroTokens(sb.asked)
                /\ sb.result.errors = SbErrors(sb.asked)
           ELSE IF SbErrors(sb.asked) # {}
           THEN sb.result.status = "error" /\ sb.result.tokenStaking = <<>>
           ELSE sb.result.status = "success" /\ sb.result.tokenStaking = <<>>

(***************************************************************************)
(* CancelLimitOrdersTool.createTool().func                                 *)
(***************************************************************************)
\* the user's pending limit orders when the tool is called
PendingOrders == {1, 2, 3}
\* args.orderId: absent, or the list Array.isArray(orderId) ? orderId : [orderId]
OrderIdArgs ==
    {[given |-> FALSE, orderIds |-> <<>>]}
        \cup {[given |-> TRUE, orderIds |-> ids] :
                ids \in {<<1>>, <<1, 2>>, <<2, 1>>, <<3, 1, 2>>}}

\* an awaited call of the loop, for the order at position i of the list
CoEvent(op, i) == [op |-> op, i |-> i]

\* mutant: a failed step is skipped and the loop goes on with the next order
CoThrow_Continue(step) ==
    LET events == Append(co.log, CoEvent("failed", co.i))
    IN  IF co.i < Len(co.orderIds)
        THEN co' = [co EXCEPT !.log = events, !.i = co.i + 1, !.pc = "cancel_build"]
        ELSE co' = [co EXCEPT !.log = events, !.pc = "done",
                              !.result = [status |-> "error", details |-> <<>>]]

\* a throw inside func's try: the catch block returns the error record
CoThrow(step) ==
    co' = [co EXCEPT !.log = Append(co.log, CoEvent("failed", co.i)),
                     !.pc = "done",
                     !.result = [status |-> "error", details |-> <<>>]]

\* the network test, up to the await of wallet.getAddress(network)
CoValidate ==
    /\ co.pc = "start"
    /\ IF co.network # "bnb"           \* not in getSupportedNetworks()
       THEN co' = [co EXCEPT !.pc = "done",
                      !.result = [status |-> "error", details |-> <<>>]]
       ELSE co' = [co EXCEPT !.pc = "wallet"]
    /\ UNCHANGED <<pipeVars, quoteVars, cacheVars, sb, sq, ag>>

\* await wallet.getAddress, the provider selection, and if (orderId): without
\* an orderId nothing is cancelled and the success record is returned
CoGetAddress ==
    /\ co.pc = "wallet"
    /\ \/ IF co.given /\ co.orderIds # <<>>
          THEN co' = [co EXCEPT !.pc = "cancel_build", !.i = 1]
          ELSE co' = [co EXCEPT !.pc = "done",
                         !.result = [status |-> "success", details |-> <<>>]]
       \/ co' = [co EXCEPT !.pc = "done",         \* getAddress rejects, no provider
                    !.result = [status |-> "error", details |-> <<>>]]
    /\ UNCHANGED <<pipeVars, quoteVars, cacheVars, sb, sq, ag>>

\* await selectedProvider.cancelOrder(Number(id)); no tx is an error
CoCancelOrder ==
    /\ co.pc = "cancel_build"
    /\ \/ co' = [co EXCEPT !.log = Append(co.log, CoEvent("cancel_requested", co.i)),
                           !.pc = "status"]
       \/ CoThrow("cancel_build")
    /\ UNCHANGED <<pipeVars, quoteVars, cacheVars, sb, sq, ag>>

\* await selectedProvider.getStatusOrderId(Number(id))
CoGetStatusOrderId ==
    /\ co.pc = "status"
    /\ \/ co' = [co EXCEPT !.pc = "cancel_send"]
       \/ CoThrow("status")
    /\ UNCHANGED <<pipeVars, quoteVars, cacheVars, sb, sq, ag>>

\* await wallet.signAndSendTransaction(network, cancel tx)
CoCancelSend ==
    /\ co.pc = "cancel_send"
    /\ \/ co' = [co EXCEPT !.log = Append(co.log, CoEvent("cancel_sent", co.i)),
                           !.pc = "cancel_wait"]
       \/ CoThrow("cancel_send")
    /\ UNCHANGED <<pipeVars, quoteVars, cacheVars, sb, sq, ag>>

\* mutant: the cancel receipt is not awaited
CoCancelWait_NotAwaited ==
    /\ co.pc = "cancel_wait"
    /\ co' = [co EXCEPT !.pc = "address"]
    /\ UNCHANGED <<pipeVars, quoteVars, cacheVars, sb, sq, ag>>

\* await cancelReceipt.wait(): mined, the order is no longer pending
CoCancelWait ==
    /\ co.pc = "cancel_wait"
    /\ \/ co' = [co EXCEPT !.log = Append(co.log, CoEvent("cancel_confirmed", co.i)),
                           !.pending = @ \ {co.orderIds[co.i]},
                           !.pc = "address"]
       \/ CoThrow("cancel_wait")
    /\ UNCHANGED <<pipeVars, quoteVars, cacheVars, sb, sq, ag>>

\* userAddress = await wallet.getAddress(network); statusOrderId[6][4]
CoUnwrapAddress ==
    /\ co.pc = "address"
    /\ \/ co' = [co EXCEPT !.pc = "unwrap_build"]
       \/ CoThrow("address")
    /\ UNCHANGED <<pipeVars, quoteVars, cacheVars, sb, sq, ag>>

\* await selectedProvider.unwrapToken(amount.toString(), userAddress)
CoUnwrapToken ==
    /\ co.pc = "unwrap_build"
    /\ \/ co' = [co EXCEPT !.pc = "unwrap_send"]
       \/ CoThrow("unwrap_build")
    /\ UNCHANGED <<pipeVars, quoteVars, cacheVars, sb, sq, ag>>

\* await wallet.signAndSendTransaction(network, unwrap tx)
CoUnwrapSend ==
    /\ co.pc = "unwrap_send"
    /\ \/ co' = [co EXCEPT !.log = Append(co.log, CoEvent("unwrap_sent", co.i)),
                           !.pc = "unwrap_wait"]
       \/ CoThrow("unwrap_send")
    /\ UNCHANGED <<pipeVars, quoteVars, cacheVars, sb, sq, ag>>

\* await unwrapReceipt.wait(), cancelResults.push, and the next turn of the
\* loop or the success record
CoUnwrapWait ==
    /\ co.pc = "unwrap_wait"
    /\ \/ LET events == Append(co.log, CoEvent("unwrap_confirmed", co.i))
              cancelResults == Append(co.cancelResults, co.orderIds[co.i])
          IN  IF co.i < Len(co.orderIds)
              THEN co' = [co EXCEPT !.log = events, !.cancelResults = cancelResults,
                                    !.i = co.i + 1, !.pc = "cancel_build"]
              ELSE co' = [co EXCEPT !.log = events, !.cancelResults = cancelResults,
                             !.pc = "done",
                             !.result = [status |-> "success", details |-> cancelResults]]
       \/ CoThrow("unwrap_wait")
    /\ UNCHANGED <<pipeVars, quoteVars, cacheVars, sb, sq, ag>>

CoInit ==
    \E network \in {"bnb", "solana"} : \E orderId \in OrderIdArgs :
        co = [CoIdle EXCEPT !.pc = "start", !.network = network,
                            !.given = orderId.given, !.orderIds = orderId.orderIds,
                            !.pending = PendingOrders]

InitCancel == PipeIdle /\ QuoteIdle /\ CacheIdle /\ sb = SbIdle /\ CoInit /\ sq = SqIdle /\ ag = AgIdle
NextCancel ==
    \/ CoValidate \/ CoGetAddress \/ CoCancelOrder \/ CoGetStatusOrderId
    \/ CoCancelSend \/ CoCancelWait \/ CoUnwrapAddress \/ CoUnwrapToken
    \/ CoUnwrapSend \/ CoUnwrapWait
SpecCancel == InitCancel /\ [][NextCancel]_vars

\* the place of an event in the order the claim prescribes
CoRank(e) ==
    5 * (e.i - 1) +
    (CASE e.op = "cancel_requested" -> 1
       [] e.op = "cancel_sent"      -> 2
       [] e.op = "cancel_confirmed" -> 3
       [] e.op = "unwrap_sent"      -> 4
       [] e.op = "unwrap_confirmed" -> 5
       [] OTHER                     -> 5)
CoHas(op, i) == \E k \in DOMAIN co.log : co.log[k] = CoEvent(op, i)

\* C34: the listed orders are cancelled one after another in list order: the
\* calls happen in the order request, cancel sent, cancel confirmed, unwrap
\* sent, unwrap confirmed, order by order; an unwrap is sent only after that
\* order's cancel was confirmed, and the next order's cancellation requested
\* only after the unwrap was confirmed.
C34_OrdersOneAfterAnother ==
    /\ \A a \in DOMAIN co.log : \A b \in DOMAIN co.log :
         (a < b /\ co.log[b].op # "failed") => CoRank(co.log[a]) < CoRank(co.log[b])
    /\ \A k \in DOMAIN co.log :
         /\ co.log[k].op = "unwrap_sent" =>
              (CoHas("cancel_sent", co.log[k].i) /\ CoHas("cancel_confirmed", co.log[k].i))
         /\ (co.log[k].op = "cancel_requested" /\ co.log[k].i > 1) =>
              CoHas("unwrap_confirmed", co.log[k].i - 1)

C34_Witness ==
    /\ co.pc = "done" /\ co.result.status = "success"
    /\ co.orderIds = <<3, 1, 2>>
    /\ Len(co.log) = 15
    /\ co.result.details = <<3, 1, 2>>

\* C35: a call without orderId that reports success has cancelled every
\* pending order of the user.
C35_AllPendingCancelled ==
    (co.pc = "done" /\ ~co.given /\ co.result.status = "success") => co.pending = {}

\* C36: when a step fails for the k-th order the tool returns status error,
\* nothing is requested or sent for a later order, and the orders before k
\* stay cancelled; status success means every listed order was cancelled and
\* unwrapped.
C36_FailureStopsTheList ==
    /\ \A k \in DOMAIN co.log :
         co.log[k].op = "failed" =>
             /\ k = Len(co.log)
             /\ co.pc = "done" /\ co.result.status = "error"
             /\ \A m \in DOMAIN co.log : co.log[m].i <= co.log[k].i
             /\ \A j \in 1 .. (co.log[k].i - 1) :
                  /\ co.orderIds[j] \notin co.pending
                  /\ CoHas("cancel_confirmed", j) /\ CoHas("unwrap_confirmed", j)
    /\ (co.pc = "done" /\ co.given /\ co.result.status = "success") =>
         \A j \in DOMAIN co.orderIds :
             /\ co.orderIds[j] \notin co.pending
             /\ CoHas("cancel_confirmed", j) /\ CoHas("unwrap_confirmed", j)

C36_Witness ==
    /\ co.pc = "done" /\ co.result.status = "error"
    /\ co.orderIds = <<3, 1, 2>>
    /\ co.log # <<>> /\ co.log[Len(co.log)] = CoEvent("failed", 2)
    /\ CoHas("cancel_confirmed", 2) /\ ~CoHas("unwrap_confirmed", 2)
    /\ co.pending = {2}

(***************************************************************************)
(* SolanaProvider.getQuote for a transfer, with adjustAmount.  Amounts are *)
(* decimal strings of SOL, balances are lamports (9 decimals).             *)
(***************************************************************************)
SOL_DECIMALS == 9             \* the decimals adjustAmount parses and formats with
SOL_GAS_COST == 5000000       \* ethers.parseUnits(CONSTANTS.GAS_COST.toString(), 9)

\* the two spellings of the native token, and an SPL token
SolTokens == {"So1111", "So1112", "SPLmint"}
isNativeSolana(tokenAddress) == tokenAddress \in {"So1111", "So1112"}

\* params.amount: "0", "0.001", "0.005", "0.01", "1", "1.5", a string with ten
\* fractional digits ("0.0000000001"), and a string that is no number
SolAmounts ==
    {AmountStr(TRUE, 0, <<>>), AmountStr(TRUE, 0, <<0, 0, 1>>),
     AmountStr(TRUE, 0, <<0, 0, 5>>), AmountStr(TRUE, 0, <<0, 1>>),
     AmountStr(TRUE, 1, <<>>), AmountStr(TRUE, 1, <<5>>),
     AmountStr(TRUE, 0, <<0, 0, 0, 0, 0, 0, 0, 0, 0, 1>>),
     AmountStr(FALSE, 0, <<>>)}
\* what connection.getBalance resolves with, in lamports
SolBalances ==
    {0, 4000000, 5000000, 5000001, 6000000, 15000000, 1005000000, 1505000000,
     2000000000}

\* ethers.parseUnits(value, 9): throws on a string that is no decimal number
\* or has more than 9 fractional digits
parseUnits(value, decimals) ==
    IF ~value.wf \/ Len(value.frac) > decimals
    THEN [ok |-> FALSE, value |-> 0]
    ELSE [ok |-> TRUE,
          value |-> value.int * Pow10(decimals)
                      + DigitsValue(value.frac) * Pow10(decimals - Len(value.frac))]

\* the fraction digits of formatUnits: trailing zeros dropped, one digit kept
RECURSIVE StripZeros(_)
StripZeros(digits) ==
    IF Len(digits) > 1 /\ digits[Len(digits)] = 0
    THEN StripZeros(SubSeq(digits, 1, Len(digits) - 1))
    ELSE digits
\* ethers.formatUnits(value, 9)
formatUnits(value, decimals) ==
    LET frac == [k \in 1 .. decimals |->
                    ((value % Pow10(decimals)) \div Pow10(decimals - k)) % 10]
    IN  AmountStr(TRUE, value \div Pow10(decimals), StripZeros(frac))

\* mutant: the gas cost is not subtracted
adjustedAmount_Whole(balance, gasCost) == balance
\* const adjustedAmount = balance - Number(gasCost)
adjustedAmount(balance, gasCost) == balance - gasCost

\* adjustAmount's try block once getBalance resolved with balance; a throw of
\* parseUnits is caught and the original amount returned
adjustAmount(amount, balance) ==
    LET amountBigInt == parseUnits(amount, SOL_DECIMALS)
        gasCost == SOL_GAS_COST
    IN  IF ~amountBigInt.ok THEN amount
        ELSE IF balance < amountBigInt.value + gasCost
        THEN IF balance <= gasCost
             THEN AmountStr(TRUE, 0, <<>>)                      \* '0'
             ELSE formatUnits(adjustedAmount(balance, gasCost), SOL_DECIMALS)
        ELSE amount

\* getQuote up to its first await: validateNetwork, the token, and
\* adjustAmount's native test
SolGetQuote ==
    /\ sq.pc = "start"
    /\ sq' = [sq EXCEPT !.pc = IF isNativeSolana(sq.token) THEN "balance" ELSE "token"]
    /\ UNCHANGED <<pipeVars, quoteVars, cacheVars, sb, co, ag>>

\* await this.getTokenInfoSolana(...) for an SPL token; adjustAmount returns
\* the amount as it is, and the quote is made
SolGetTokenInfo ==
    /\ sq.pc = "token"
    /\ \/ sq' = [sq EXCEPT !.pc = "done", !.quoteAmount = sq.amount]
       \/ sq' = [sq EXCEPT !.pc = "rejected"]
    /\ UNCHANGED <<pipeVars, quoteVars, cacheVars, sb, co, ag>>

\* await this.connection.getBalance(new PublicKey(userAddress)) inside
\* adjustAmount's try, the rest of adjustAmount, and the quote
SolGetBalance ==
    /\ sq.pc = "balance"
    /\ \/ \E balance \in SolBalances :
            sq' = [sq EXCEPT !.pc = "done", !.balance = balance,
                             !.quoteAmount = adjustAmount(sq.amount, balance)]
       \/ sq' = [sq EXCEPT !.pc = "done", !.quoteAmount = sq.amount]   \* lookup failed
    /\ UNCHANGED <<pipeVars, quoteVars, cacheVars, sb, co, ag>>

SqInit ==
    \E token \in SolTokens : \E amount \in SolAmounts :
        sq = [SqIdle EXCEPT !.pc = "start", !.token = token, !.amount = amount]

InitAdjust == PipeIdle /\ QuoteIdle /\ CacheIdle /\ sb = SbIdle /\ co = CoIdle /\ SqInit /\ ag = AgIdle
NextAdjust == SolGetQuote \/ SolGetTokenInfo \/ SolGetBalance
SpecAdjust == InitAdjust /\ [][NextAdjust]_vars

\* the lamports a decimal string of SOL denotes, rounded down, and whether
\* nothing was rounded away
LamportsFloor(a) ==
    LET frac == IF Len(a.frac) > SOL_DECIMALS THEN SubSeq(a.frac, 1, SOL_DECIMALS)
                ELSE a.frac
    IN  a.int * Pow10(SOL_DECIMALS) + DigitsValue(frac) * Pow10(SOL_DECIMALS - Len(frac))
IsWholeLamports(a) ==
    \A k \in DOMAIN a.frac : k > SOL_DECIMALS => a.frac[k] = 0
\* balance >= amount + gasCost, for the number the string denotes
Affordable(a, balance) ==
    IF IsWholeLamports(a) THEN balance >= LamportsFloor(a) + SOL_GAS_COST
    ELSE balance > LamportsFloor(a) + SOL_GAS_COST
\* the three cases of the claim
ExpectedQuoteAmount(a, balance) ==
    /\ Affordable(a, balance) => sq.quoteAmount = a
    /\ (~Affordable(a, balance) /\ balance <= SOL_GAS_COST) =>
         (IsWholeLamports(sq.quoteAmount) /\ LamportsFloor(sq.quoteAmount) = 0)
    /\ (~Affordable(a, balance) /\ balance > SOL_GAS_COST) =>
         /\ IsWholeLamports(sq.quoteAmount)
         /\ LamportsFloor(sq.quoteAmount) = balance - SOL_GAS_COST
    /\ \/ LamportsFloor(sq.quoteAmount) = 0 /\ IsWholeLamports(sq.quoteAmount)
       \/ LamportsFloor(sq.quoteAmount) + SOL_GAS_COST <= balance

\* C37 (as stated): for the native token and a successful balance lookup the
\* quoted amount is the requested one if balance >= amount + gasCost, 0 if
\* balance <= gasCost, balance - gasCost otherwise; for other tokens or a
\* failed lookup it is the requested amount.
C37_AmountAdjustedForGas ==
    (sq.pc = "done" /\ sq.amount.wf) =>
        IF isNativeSolana(sq.token) /\ sq.balance >= 0
        THEN ExpectedQuoteAmount(sq.amount, sq.balance)
        ELSE sq.quoteAmount = sq.amount

\* C37 (amended): the three cases hold when the amount is a decimal number of
\* at most 9 fractional digits; for other tokens, a failed lookup, or an
\* amount parseUnits rejects, the quoted amount is the requested one.
C37_AmountAdjustedWhenParsable ==
    sq.pc = "done" =>
        IF isNativeSolana(sq.token) /\ sq.balance >= 0
             /\ sq.amount.wf /\ Len(sq.amount.frac) <= SOL_DECIMALS
        THEN ExpectedQuoteAmount(sq.amount, sq.balance)
        ELSE sq.quoteAmount = sq.amount

C37_Witness ==
    /\ sq.pc = "done" /\ isNativeSolana(sq.token)
    /\ sq.amount = AmountStr(TRUE, 1, <<>>) /\ sq.balance = 6000000
    /\ sq.quoteAmount = AmountStr(TRUE, 0, <<0, 0, 1>>)


(***************************************************************************)
(* Agent: the tool list, the plugin map and the executor.                  *)
(*                                                                         *)
(* registerTool, registerPlugin, unregisterPlugin and execute are async    *)
(* functions; each action below is one of their synchronous stretches,     *)
(* from a call or a resumption to the next await.  initializeExecutor is   *)
(* started by all of them; its pending calls are ag.inits, in the order    *)
(* they were started.  createExecutor reads this.getTools() when it is     *)
(* called (the tools handed to createOpenAIToolsAgent, which the model is  *)
(* told about), and every pending call runs the same code, so pending      *)
(* calls finish in the order they were started.                            *)
(***************************************************************************)
\* the tool initializeDefaultTools registers
DefaultTool == "get_wallet_address"
\* tools a caller may pass to registerTool
StandaloneTools == {"terminate", "staking"}
\* plugins a caller may pass to registerPlugin
PluginNames == {"token", "staking"}
\* names unregisterPlugin may be called with; "swap" is never registered
UnregisterNames == PluginNames \cup {"swap"}
\* plugin.getTools().map(t => t.getName())
PluginTools(p) ==
    CASE p = "token"   -> <<"get_token_info">>
      [] p = "staking" -> <<"staking", "get_staking_balance">>
      [] OTHER         -> <<>>
\* the names in a tool list
ToolNames(tools) == {tools[i].name : i \in 1..Len(tools)}
\* new Set(plugin.getTools().map(t => t.getName()))
pluginToolNames(p) == {PluginTools(p)[i] : i \in 1..Len(PluginTools(p))}

\* this.tools.filter(t => !pluginToolNames.has(t.name)), but keeping every
\* tool that was not registered by the plugin
WithoutPluginTools_ByOwner(tools, p) ==
    SelectSeq(tools, LAMBDA t : t.of # p)
\* this.tools.filter(t => !pluginToolNames.has(t.name))
WithoutPluginTools(tools, p) ==
    SelectSeq(tools, LAMBDA t : t.name \notin pluginToolNames(p))

\* registerTool does not await initializeExecutor: its promise resolves as
\* soon as the tool is pushed and the initialization is started
SettledAfterPush(a, names) == a.settled \cup names

\* initializeExecutor() up to createExecutor's await: the call is pending
\* with the tools createOpenAIToolsAgent was given
initializeExecutor(a, awaiter) ==
    [a EXCEPT !.inits = Append(@, [tools |-> ToolNames(a.tools), caller |-> awaiter])]
\* registerTool(tool) for a tool of `owner`: push, start initializeExecutor
registerTool(a, t, owner) ==
    initializeExecutor([a EXCEPT !.tools = Append(@, [name |-> t, of |-> owner])], "none")
\* the tools whose registration promise has resolved and that are registered
Registered(a) == a.settled \cap ToolNames(a.tools)

\* new Agent(...): initializeDefaultTools() and initializeExecutor()
AgConstructed ==
    LET a1 == registerTool(AgIdle, DefaultTool, "agent")
        a2 == [a1 EXCEPT !.settled = SettledAfterPush(a1, {DefaultTool})]
    IN  initializeExecutor(a2, "none")

\* await agent.registerTool(tool)
AgRegisterTool(t) ==
    /\ t \in StandaloneTools
    /\ <<"tool", t>> \notin ag.once
    /\ LET a1 == registerTool(ag, t, "agent")
       IN  ag' = [a1 EXCEPT !.settled = SettledAfterPush(a1, {t}),
                            !.once = @ \cup {<<"tool", t>>}]
    /\ UNCHANGED <<pipeVars, quoteVars, cacheVars, sb, co, sq>>

\* agent.registerPlugin(plugin), up to the first await
AgRegisterPlugin(p) ==
    /\ p \in PluginNames
    /\ <<"plugin", p>> \notin ag.once
    /\ ag.reg.plugin = ""
    /\ LET a1 == [ag EXCEPT !.plugins = @ \cup {p}, !.once = @ \cup {<<"plugin", p>>}]
           a2 == registerTool(a1, PluginTools(p)[1], p)
       IN  ag' = [a2 EXCEPT !.reg = [plugin |-> p, i |-> 2]]
    /\ UNCHANGED <<pipeVars, quoteVars, cacheVars, sb, co, sq>>

\* registerPlugin resumed after `await this.registerTool(tool)`: the next
\* tool, or the final initializeExecutor() and the return
AgRegisterPluginResume ==
    /\ ag.reg.plugin # ""
    /\ LET p == ag.reg.plugin
           i == ag.reg.i
       IN  IF i <= Len(PluginTools(p))
           THEN ag' = [registerTool(ag, PluginTools(p)[i], p) EXCEPT !.reg.i = i + 1]
           ELSE LET a1 == initializeExecutor(ag, "none")
                IN  ag' = [a1 EXCEPT !.settled = SettledAfterPush(a1, pluginToolNames(p)),
                                     !.reg = [plugin |-> "", i |-> 0]]
    /\ UNCHANGED <<pipeVars, quoteVars, cacheVars, sb, co, sq>>

\* the oldest pending initializeExecutor resumes: this.executor is assigned,
\* and whoever awaited it goes on
AgInitialized ==
    /\ ag.inits # <<>>
    /\ LET h == Head(ag.inits)
           a1 == [ag EXCEPT !.inits = Tail(@),
                            !.executor = [defined |-> TRUE, tools |-> h.tools]]
       IN  ag' = CASE h.caller = "execute" ->
                        [a1 EXCEPT !.run.pc = "invoked", !.run.on = h.tools]
                   [] h.caller = "unregister" ->
                        [a1 EXCEPT !.unreg.pc = "done"]
                   [] OTHER -> a1
    /\ UNCHANGED <<pipeVars, quoteVars, cacheVars, sb, co, sq>>

\* agent.execute(command): invoke on this.executor, after initializing it
\* if there is none
AgExecute ==
    /\ ag.run.pc # "waiting"
    /\ IF ag.executor.defined
       THEN ag' = [ag EXCEPT !.run = [pc |-> "invoked", expected |-> Registered(ag),
                                      on |-> ag.executor.tools]]
       ELSE ag' = [initializeExecutor(ag, "execute") EXCEPT
                      !.run = [pc |-> "waiting", expected |-> Registered(ag), on |-> {}]]
    /\ UNCHANGED <<pipeVars, quoteVars, cacheVars, sb, co, sq>>

\* unregisterPlugin(name), up to `await plugin.cleanup()`; nothing happens
\* for a name that is not in the plugin map
AgUnregisterPlugin(name) ==
    /\ name \in UnregisterNames
    /\ ag.unreg.pc \in {"idle", "done", "rejected", "unknown"}
    /\ ag' = [ag EXCEPT !.unreg = [name |-> name,
                                   pc |-> IF name \in ag.plugins THEN "cleanup"
                                                                 ELSE "unknown"]]
    /\ UNCHANGED <<pipeVars, quoteVars, cacheVars, sb, co, sq>>

\* plugin.cleanup() settled: on success the plugin and its tools are removed
\* and onToolsUpdated() is awaited; a rejection leaves unregisterPlugin
AgCleanupSettled(ok) ==
    /\ ag.unreg.pc = "cleanup"
    /\ IF ok
       THEN LET a1 == [ag EXCEPT !.plugins = @ \ {ag.unreg.name},
                                 !.tools = WithoutPluginTools(@, ag.unreg.name),
                                 !.unreg.pc = "updating"]
            IN  ag' = initializeExecutor(a1, "unregister")
       ELSE ag' = [ag EXCEPT !.unreg.pc = "rejected"]
    /\ UNCHANGED <<pipeVars, quoteVars, cacheVars, sb, co, sq>>

InitAgent == PipeIdle /\ QuoteIdle /\ CacheIdle /\ sb = SbIdle /\ co = CoIdle /\ sq = SqIdle
             /\ ag = AgConstructed
NextAgent ==
    \/ \E t \in StandaloneTools : AgRegisterTool(t)
    \/ \E p \in PluginNames : AgRegisterPlugin(p)
    \/ AgRegisterPluginResume
    \/ AgInitialized
    \/ AgExecute
    \/ \E name \in UnregisterNames : AgUnregisterPlugin(name)
    \/ \E ok \in BOOLEAN : AgCleanupSettled(ok)
SpecAgent == InitAgent /\ [][NextAgent]_vars


\* C38: once the promise of registerTool or registerPlugin has resolved, every
\* later execute() runs on an executor that was built from all the tools
\* registered so far.
C38_ExecuteSeesRegisteredTools ==
    ag.run.pc = "invoked" => ag.run.expected \subseteq ag.run.on

\* C39: unregisterPlugin(name) removes, once cleanup has succeeded and not
\* before, the plugin and exactly the tools whose names are names of its tools,
\* and leaves every other tool and plugin as it was; a failed cleanup and an
\* unknown name change neither the tools nor the plugins; and nothing else
\* ever removes a tool or a plugin.
C39_UnregisterRemovesPluginAndItsTools ==
    [][ /\ (ag.unreg.pc = "cleanup" /\ ag'.unreg.pc = "updating") =>
              /\ ag'.plugins = ag.plugins \ {ag.unreg.name}
              /\ ag'.tools = SelectSeq(ag.tools,
                                 LAMBDA t : t.name \notin pluginToolNames(ag.unreg.name))
        /\ (ag.unreg.pc = "cleanup" /\ ag'.unreg.pc = "rejected") =>
              /\ ag'.plugins = ag.plugins
              /\ ag'.tools = ag.tools
        /\ (ag'.unreg.pc = "unknown" /\ ag'.unreg # ag.unreg) =>
              /\ ag'.unreg.name \notin ag.plugins
              /\ ag'.plugins = ag.plugins
              /\ ag'.tools = ag.tools
        /\ (~(ag.plugins \subseteq ag'.plugins) \/ Len(ag'.tools) < Len(ag.tools)) =>
              (ag.unreg.pc = "cleanup" /\ ag'.unreg.pc = "updating")
      ]_vars
\* the staking plugin has been unregistered: its two tools and the tool a
\* caller registered under the name "staking" are gone, the token plugin, its
\* tool and the other tools are still there
C39_Witness ==
    /\ ag.unreg.name = "staking"
    /\ ag.unreg.pc = "done"
    /\ <<"tool", "staking">> \in ag.once
    /\ ag.plugins = {"token"}
    /\ ToolNames(ag.tools) = {DefaultTool, "terminate", "get_token_info"}

====
